---- MODULE Spec2Model ----
(***************************************************************************)
(* Veilon trading: the equity stream supervisor, the lifecycle manager and *)
(* the evaluation engine, modelled from                                    *)
(*   src/veilon_core/services/equity_stream_manager.py                     *)
(*   src/veilon_core/services/improved_account_flow.py                     *)
(*   src/veilon_core/services/monitoring_engine.py                         *)
(***************************************************************************)
EXTENDS Integers, Sequences, FiniteSets, TLC

\* ------------------------------------------------------------------ bounds
\* External (MetaApi) account ids of the stream model: 1..NumAccounts.
NumAccounts == 2
\* Stream tasks ever created by start_equity_stream.
MaxTasks == 3
\* Facade calls (start_stream / stop_stream) that may be in flight at once.
MaxCalls == 2
\* Listener registrations that may exist at the vendor at once.
MaxListeners == 2
\* Facade calls issued in one behaviour.
MaxOps == 4
\* Failures the vendor causes in one behaviour (failed attach requests, missing
\* connected events, stale or disconnected streams).
MaxFaults == 3

\* Internal accounts (accounts.id); trading_periods rows; minutes of the clock.
NumInternal == 2
MaxPeriods == 2
MaxTime == 2
\* Start attempts of the lifecycle manager in one behaviour.
MaxAttempts == 3
\* Start attempts and facade calls in one behaviour of the whole system.
MaxSystemAttempts == 2
MaxSystemOps == 3
\* Bars written to equity_ohlc_1min in one behaviour.
MaxBarWrites == 2
\* Ticks the vendor may deliver, and failures of a tick consumer or of a store
\* write, in the specification of the tick pipeline.
MaxTicks == 3
MaxTickFaults == 1
\* Statements of the lifecycle manager that may fail in the store.
MaxStoreFaults == 1
\* Rows of equity_balance_ticks one behaviour inserts, clock readings it goes
\* through, and the seconds between two readings.
MaxSamples == 3
MaxClock == 3
ClockStep == 30
\* Users; deployments one behaviour submits; deploy calls that fail.
NumUsers == 2
MaxDeploys == 3
MaxDeployFaults == 1
\* Calls of the monitor's process_tick in one behaviour.
MaxMonitorTicks == 4
\* Facade calls in a behaviour of the supervisor under fair scheduling.
MaxRetryOps == 2
\* Start attempts, facade calls of other callers and ticks in a behaviour of
\* the monitor across two periods.
MaxPeriodAttempts == 1
MaxPeriodOps == 2
MaxPeriodTicks == 2
\* Threads of one process that call get_service().
NumThreads == 3
\* Facade calls the standalone stream service makes in one behaviour.
MaxSyncOps == 4

Accounts == 1..NumAccounts
AcctIds == 1..NumInternal
Minutes == 0..(MaxTime - 1)
TaskIds == 1..MaxTasks
CallIds == 1..MaxCalls
ListenerIds == 1..MaxListeners

\* ------------------------------------------------- constants of the program
\* seconds; equity_stream_manager.py
StopWaitTimeout == 10
AttachTimeout == 20
ConnectTimeout == 30
WatchdogSleep == 1
SdkPause == 2
ConnectRetryPause == 2
BackoffInitial == 2
BackoffMax == 60
MaxFailuresBeforeSdkReset == 3
\* the largest jitter factor 0.8 + 0.4 * random(), in tenths
JitterMaxTenths == 12

VARIABLES
    streams,    \* EquityStreamManagerAsync._streams: account -> (task, listener_id)
    tasks,      \* the asyncio tasks running _run, with _run's locals
    lock,       \* EquityStreamManagerAsync._lock: 0 free, else the call holding it
    calls,      \* facade calls in flight: start_stream / stop_stream
    vendor,     \* listener registrations at the vendor: id -> "cur" | "old" | "none"
    startHist,  \* history: per account, the results of the first starts of the
                \* outside callers, up to their first stop request for it
    opsLeft,    \* facade calls the callers may still issue
    faultsLeft  \* failures the vendor may still cause

streamVars == <<streams, tasks, lock, calls, vendor, startHist, opsLeft, faultsLeft>>

VARIABLES
    accts,       \* table accounts: id -> row
    periods,     \* table trading_periods: trading_period_id -> row
    bars,        \* table equity_ohlc_1min: (external id, bar_time) -> row
    events,      \* table account_events, in insertion order
    fresh,       \* equity_balance_ticks: per external id, the newest tick of the
                 \* last 60 s: "none", "flat" (equity = balance) or "open"
    now,         \* the minute NOW() falls in
    barsLeft,    \* bars that may still be written
    dbFaultsLeft \* statements of the lifecycle manager that may still fail

storeVars == <<accts, periods, bars, events, fresh, now, barsLeft, dbFaultsLeft>>

VARIABLES
    engine,      \* EvaluationMonitor.run_check_cycle: its position and locals
    attempts,    \* attempt_start_evaluation / attempt_start_funded_stage in
                 \* flight, per internal account
    attemptsLeft \* start attempts that may still be made

procVars == <<engine, attempts, attemptsLeft>>

VARIABLES
    buckets,       \* OHLCAggregator._current_bars: (external id, bar_time) -> bar
    cb,            \* on_equity_or_balance_updated in flight, per external id
    fed,           \* history: per (external id, minute), the equities
                   \* process_tick has taken into the window, in order
    stored,        \* history: per (external id, minute), the writes of its
                   \* bar that reached the store
    ticksLeft,     \* ticks the vendor may still deliver
    tickFaultsLeft \* consumer or write failures that may still happen

tickVars == <<buckets, cb, fed, stored, ticksLeft, tickFaultsLeft>>

VARIABLES
    samples,     \* table equity_balance_ticks, in insertion order
    clock,       \* NOW(), in units of ClockUnit seconds
    flatq,       \* the flatness check of a start attempt (lines 147-160) in
                 \* flight: its position and what its queries returned
    samplesLeft  \* rows the sink may still insert

sampleVars == <<samples, clock, flatq, samplesLeft>>

VARIABLES
    reg,             \* accounts.user_id and accounts.login, per account id
                     \* (login 0 is NULL)
    cloud,           \* the vendor's cloud accounts: MT login -> account id
                     \* (0: the login has none)
    deploys,         \* handle_account_deployment in flight, per account id
    deploysLeft,     \* deployments that may still be submitted
    deployFaultsLeft \* deploy calls that may still fail

deployVars == <<reg, cloud, deploys, deploysLeft, deployFaultsLeft>>

VARIABLES
    metrics,     \* EquityMonitor._metrics: external id -> AccountMetrics
    cache,       \* table account_metrics_cache: external id -> row
    seen,        \* history: per external id, the equities process_tick has
                 \* worked into the metrics, in order
    monTicksLeft \* calls of process_tick that may still be made

monVars == <<metrics, cache, seen, monTicksLeft>>

VARIABLES
    service,     \* the module global _service of a process: 0 is None, else
                 \* the EquityStreamService it refers to
    built,       \* EquityStreamService objects constructed in the process,
                 \* each with its loop thread and its manager
    callers,     \* get_service() in flight and its caller's use of the
                 \* result, per thread
    mgrs,        \* per constructed service, the external ids with a stream
                 \* task in its manager
    tracked,     \* _active_streams of the standalone stream service
    sync         \* sync_streams: its position, its locals and what the pass
                 \* has done so far

svcVars == <<service, built, callers, mgrs, tracked, sync>>

\* The components beside the stream supervisor and the tick pipeline.
sideVars == <<sampleVars, deployVars, monVars, svcVars>>

vars == <<streamVars, storeVars, procVars, tickVars, sideVars>>

NoTask == 0
NoListener == 0

Abs(n) == IF n < 0 THEN 0 - n ELSE n

Min(a, b) == IF a < b THEN a ELSE b

\* _streams[account] when the account has no entry
NoEntry == [task |-> NoTask, lid |-> NoListener]

\* A task slot no start has used yet; also the shape of a finished task. fails
\* is history: the failures the task has met since it started or since it last
\* recreated the connection object.
BlankTask(a, pc, cancelled) ==
    [acct |-> a, pc |-> pc, stop |-> FALSE, lid |-> NoListener, cf |-> 0,
     backoff |-> BackoffInitial, cancelled |-> cancelled, fails |-> 0]

IdleCall == [op |-> "none", acct |-> 0, pc |-> "idle", task |-> NoTask,
             forced |-> FALSE, result |-> "none", owner |-> "none"]

\* Task.done()
TaskDone(t) == tasks[t].pc = "done"
TaskLive(t) == tasks[t].pc \notin {"unused", "done"}

\* `account_id in self._streams`
InStreams(a) == streams[a].task # NoTask

\* line 508: account_id in self._streams and not self._streams[account_id][0].done()
AlreadyRunning(a) == InStreams(a) /\ ~TaskDone(streams[a].task)

LiveTasksOf(a) == {t \in TaskIds : TaskLive(t) /\ tasks[t].acct = a}
TasksOf(a) == {t \in TaskIds : tasks[t].pc # "unused" /\ tasks[t].acct = a}

\* ------------------------------------------------------------ stream task
\* detach_listener (lines 563-572): remove_equity_balance_listener is called on
\* the manager's current api object, which knows only the registrations made on
\* it; listener_id is forgotten in every case.
VendorAfterDetach(t) ==
    LET l == tasks[t].lid IN
    IF l # NoListener /\ vendor[l] = "cur"
    THEN [vendor EXCEPT ![l] = "none"]
    ELSE vendor

\* _recreate_sdk (lines 500-504): self.rm / self.api are replaced; what was
\* registered on the discarded object stays registered there.
VendorAfterRecreate(v) ==
    [l \in ListenerIds |-> IF v[l] = "cur" THEN "old" ELSE v[l]]

\* The task ends: the finally clause (lines 674-675) detaches the listener.
TaskEnds(t, cancelled) ==
    /\ vendor' = VendorAfterDetach(t)
    /\ tasks' = [tasks EXCEPT ![t] = BlankTask(tasks[t].acct, "done", cancelled)]

\* line 578
NeedsSdkReset(t) == tasks[t].cf >= MaxFailuresBeforeSdkReset

\* The head of the outer loop (lines 575-596), up to the attach request;
\* connected_event and disconnected_event are cleared before every attach.
TaskLoopTop(t) ==
    /\ tasks[t].pc = "loop"
    /\ IF tasks[t].stop
       THEN TaskEnds(t, FALSE)
       ELSE IF NeedsSdkReset(t)
       THEN /\ vendor' = VendorAfterRecreate(VendorAfterDetach(t))
            /\ tasks' = [tasks EXCEPT ![t].lid = NoListener, ![t].cf = 0,
                                      ![t].backoff = BackoffInitial,
                                      ![t].pc = "sdk_pause", ![t].fails = 0]
       ELSE /\ vendor' = VendorAfterDetach(t)
            /\ tasks' = [tasks EXCEPT ![t].lid = NoListener, ![t].pc = "attaching"]
    /\ UNCHANGED <<streams, lock, calls, startHist, opsLeft, faultsLeft>>
    /\ UNCHANGED <<storeVars, procVars, tickVars, sideVars>>

\* After the pause that follows the SDK recreation (lines 588-596).
TaskSdkPauseDone(t) ==
    /\ tasks[t].pc = "sdk_pause"
    /\ vendor' = VendorAfterDetach(t)
    /\ tasks' = [tasks EXCEPT ![t].lid = NoListener, ![t].pc = "attaching"]
    /\ UNCHANGED <<streams, lock, calls, startHist, opsLeft, faultsLeft>>
    /\ UNCHANGED <<storeVars, procVars, tickVars, sideVars>>

FreeListenerIds == {l \in ListenerIds : vendor[l] = "none"}

\* add_equity_balance_listener returns within the 20 s (lines 598-603).
TaskAttachReturns(t) ==
    /\ tasks[t].pc = "attaching"
    /\ FreeListenerIds # {}
    /\ LET l == CHOOSE x \in FreeListenerIds : \A y \in FreeListenerIds : x <= y IN
       /\ vendor' = [vendor EXCEPT ![l] = "cur"]
       /\ tasks' = [tasks EXCEPT ![t].lid = l, ![t].pc = "attached"]
    /\ UNCHANGED <<streams, lock, calls, startHist, opsLeft, faultsLeft>>
    /\ UNCHANGED <<storeVars, procVars, tickVars, sideVars>>

\* min(backoff * 2.0, backoff_max) (lines 662, 672)
NextBackoff(b) == Min(b * 2, BackoffMax)

\* The attach request times out or raises (lines 657-661, 667-671): the failure
\* is counted and the task sleeps min(backoff, backoff_max) * jitter.
TaskAttachFails(t) ==
    /\ tasks[t].pc = "attaching"
    /\ faultsLeft > 0
    /\ faultsLeft' = faultsLeft - 1
    /\ tasks' = [tasks EXCEPT ![t].cf = @ + 1, ![t].pc = "backoff",
                              ![t].fails = @ + 1]
    /\ UNCHANGED <<streams, lock, calls, vendor, startHist, opsLeft>>
    /\ UNCHANGED <<storeVars, procVars, tickVars, sideVars>>

\* The backoff sleep is over (lines 662, 672).
TaskBackoffDone(t) ==
    /\ tasks[t].pc = "backoff"
    /\ tasks' = [tasks EXCEPT ![t].backoff = NextBackoff(@), ![t].pc = "loop"]
    /\ UNCHANGED <<streams, lock, calls, vendor, startHist, opsLeft, faultsLeft>>
    /\ UNCHANGED <<storeVars, procVars, tickVars, sideVars>>

\* Lines 605-612: under the lock, the listener id is written into whatever entry
\* the account has; then the failure counter and the backoff are reset.
TaskRecordListener(t) ==
    /\ tasks[t].pc = "attached"
    /\ lock = 0
    /\ LET a == tasks[t].acct IN
       streams' = IF InStreams(a)
                  THEN [streams EXCEPT ![a].lid = tasks[t].lid]
                  ELSE streams
    /\ tasks' = [tasks EXCEPT ![t].cf = 0, ![t].backoff = BackoffInitial,
                              ![t].pc = "wait_conn"]
    /\ UNCHANGED <<lock, calls, vendor, startHist, opsLeft, faultsLeft>>
    /\ UNCHANGED <<storeVars, procVars, tickVars, sideVars>>

\* Lines 461-464, 617-636: on_connected sets the connected event within the
\* 30 s and the task enters the watchdog loop.
TaskConnected(t) ==
    /\ tasks[t].pc = "wait_conn"
    /\ tasks' = [tasks EXCEPT ![t].pc = "watchdog"]
    /\ UNCHANGED <<streams, lock, calls, vendor, startHist, opsLeft, faultsLeft>>
    /\ UNCHANGED <<storeVars, procVars, tickVars, sideVars>>

\* Lines 621-633: no connected event within the 30 s.
TaskConnectTimeout(t) ==
    /\ tasks[t].pc = "wait_conn"
    /\ faultsLeft > 0
    /\ faultsLeft' = faultsLeft - 1
    /\ tasks' = [tasks EXCEPT ![t].cf = @ + 1, ![t].pc = "conn_pause",
                              ![t].fails = @ + 1]
    /\ UNCHANGED <<streams, lock, calls, vendor, startHist, opsLeft>>
    /\ UNCHANGED <<storeVars, procVars, tickVars, sideVars>>

\* Lines 632-633: sleep(2); continue.
TaskConnPauseDone(t) ==
    /\ tasks[t].pc = "conn_pause"
    /\ tasks' = [tasks EXCEPT ![t].pc = "loop"]
    /\ UNCHANGED <<streams, lock, calls, vendor, startHist, opsLeft, faultsLeft>>
    /\ UNCHANGED <<storeVars, procVars, tickVars, sideVars>>

\* A pass of the watchdog loop that finds the stop event set (line 637): the
\* inner and the outer loop end. A pass that finds nothing sleeps 1 s and leaves
\* the state as it is.
TaskWatchdogStop(t) ==
    /\ tasks[t].pc = "watchdog"
    /\ tasks[t].stop
    /\ TaskEnds(t, FALSE)
    /\ UNCHANGED <<streams, lock, calls, startHist, opsLeft, faultsLeft>>
    /\ UNCHANGED <<storeVars, procVars, tickVars, sideVars>>

\* Where a break would lead that left the outer loop as well.
WatchdogBreakOut == "done"

\* The break of lines 648 and 653 leaves the inner loop: the outer loop is at
\* its head again.
WatchdogBreakTo == "loop"

\* A pass of the watchdog loop that finds the last tick more than 120 s old
\* (lines 643-648) or the disconnected event set by on_disconnected (lines
\* 466-468, 650-653): the failure is counted and the outer loop starts over.
TaskWatchdogTrip(t) ==
    /\ tasks[t].pc = "watchdog"
    /\ ~tasks[t].stop
    /\ faultsLeft > 0
    /\ faultsLeft' = faultsLeft - 1
    /\ tasks' = [tasks EXCEPT ![t].cf = @ + 1, ![t].pc = WatchdogBreakTo,
                              ![t].fails = @ + 1]
    /\ UNCHANGED <<streams, lock, calls, vendor, startHist, opsLeft>>
    /\ UNCHANGED <<storeVars, procVars, tickVars, sideVars>>

\* ----------------------------------------------------------- equity monitor
\* The percentages of AccountMetrics are quotients of two amounts. A quotient
\* is kept as the fraction in lowest terms, numerator first: the float the
\* code computes is a function of that fraction (the difference of two
\* equities is exact in float8 and the division is correctly rounded).
RECURSIVE Gcd(_, _)
Gcd(a, b) == IF b = 0 THEN a ELSE Gcd(b, a % b)

Ratio(n, d) ==
    IF n = 0 THEN <<0, 1>>
    ELSE LET g == Gcd(Abs(n), d) IN <<n \div g, d \div g>>

RatioAbs(r) == <<Abs(r[1]), r[2]>>

\* Lines 166-169: the gain from the first equity; 0.0 without one.
GainOf(e, f) == IF f > 0 THEN Ratio(e - f, f) ELSE Ratio(0, 1)

\* The drawdown of a monitor that took the size of the gain whatever its sign.
DrawdownAbs(g) == RatioAbs(g)

\* Lines 181-188: the drawdown is the size of a negative gain.
DrawdownOf(g) == IF g[1] < 0 THEN RatioAbs(g) ELSE Ratio(0, 1)

\* The external id has no entry in _metrics, or no row in the cache.
NoMetrics ==
    [init |-> FALSE, period_start |-> 0, first_equity |-> 0,
     current_equity |-> 0, peak_equity |-> 0, trough_equity |-> 0,
     current_gain_pct |-> Ratio(0, 1), peak_gain_pct |-> Ratio(0, 1),
     trough_gain_pct |-> Ratio(0, 1), current_drawdown_pct |-> Ratio(0, 1),
     last_updated |-> 0]

\* The AccountMetrics of lines 101-114 and 145-157.
NewMetrics(start, f, t) ==
    [NoMetrics EXCEPT !.init = TRUE, !.period_start = start,
                      !.first_equity = f, !.current_equity = f,
                      !.peak_equity = f, !.trough_equity = f,
                      !.last_updated = t]

\* A monitor that followed the highs of the equity only.
MetricsAfterTickNoLow(m, e, t) ==
    LET g == GainOf(e, m.first_equity)
        high == e > m.peak_equity
    IN [m EXCEPT !.current_equity = e,
                 !.current_gain_pct = g,
                 !.peak_equity = IF high THEN e ELSE @,
                 !.peak_gain_pct = IF high THEN g ELSE @,
                 !.current_drawdown_pct = DrawdownOf(g),
                 !.last_updated = t]

\* Lines 160-191 on an initialized entry.
MetricsAfterTick(m, e, t) ==
    LET g == GainOf(e, m.first_equity)
        high == e > m.peak_equity
        low == e < m.trough_equity
    IN [m EXCEPT !.current_equity = e,
                 !.current_gain_pct = g,
                 !.peak_equity = IF high THEN e ELSE @,
                 !.peak_gain_pct = IF high THEN g ELSE @,
                 !.trough_equity = IF low THEN e ELSE @,
                 !.trough_gain_pct = IF low THEN g ELSE @,
                 !.current_drawdown_pct = DrawdownOf(g),
                 !.last_updated = t]

\* Lines 124-136: the periods of the external id with end_time NULL, and the
\* start_time of the latest.
UnendedPeriods(ps, x) == {p \in DOMAIN ps : ps[p].ext = x /\ ~ps[p].ended}

LatestStart(ps, x) ==
    LET S == UnendedPeriods(ps, x)
    IN ps[CHOOSE p \in S : \A q \in S : ps[q].start <= ps[p].start].start

\* Lines 119-193: whether process_tick gets past its initialization, and the
\* entry it leaves.
TickProcessed(m, ps, x) == m.init \/ UnendedPeriods(ps, x) # {}

MetricsAfterProcess(m, ps, x, e, t) ==
    IF m.init THEN MetricsAfterTick(m, e, t)
    ELSE IF UnendedPeriods(ps, x) = {} THEN m
    ELSE MetricsAfterTick(NewMetrics(LatestStart(ps, x), e, t), e, t)

\* initialize_account (lines 53-116) over the periods ps and the table tbl of
\* equity_balance_ticks at time t: without a period with end_time NULL it
\* raises, without a tick at or after the period's start it returns, and in
\* both cases the entry m stays as it is; otherwise the entry is replaced.
\* Rows of one ts are read in insertion order.
TicksSince(tbl, x, s) == {k \in DOMAIN tbl : tbl[k].acct = x /\ tbl[k].ts >= s}

MetricsAfterInitialize(m, ps, tbl, x, t) ==
    IF UnendedPeriods(ps, x) = {} THEN m
    ELSE LET s == LatestStart(ps, x)
             R == TicksSince(tbl, x, s)
         IN IF R = {} THEN m
            ELSE LET k == CHOOSE i \in R : \A j \in R :
                              \/ tbl[i].ts < tbl[j].ts
                              \/ tbl[i].ts = tbl[j].ts /\ i <= j
                 IN NewMetrics(s, tbl[k].equity, t)

\* _persist_metrics (lines 195-241): the row is inserted; on a conflict the
\* existing row takes every column but period_start and first_equity.
CacheAfterPersist(row, m) ==
    IF ~row.init THEN m
    ELSE [m EXCEPT !.period_start = row.period_start,
                   !.first_equity = row.first_equity]

\* process_tick(x, e) under the monitor's lock.
MonitorUpdates(x, e) ==
    /\ metrics' = [metrics EXCEPT ![x] = MetricsAfterProcess(@, periods, x, e, now)]
    /\ IF TickProcessed(metrics[x], periods, x)
       THEN /\ cache' = [cache EXCEPT ![x] = CacheAfterPersist(@, metrics'[x])]
            /\ seen' = [seen EXCEPT ![x] = Append(@, e)]
       ELSE UNCHANGED <<cache, seen>>

\* EquityMonitor.process_tick (lines 119-193) called with a tick.
MonitorProcessTick(x, e) ==
    /\ monTicksLeft > 0
    /\ monTicksLeft' = monTicksLeft - 1
    /\ MonitorUpdates(x, e)
    /\ UNCHANGED <<streamVars, storeVars, procVars, tickVars, sampleVars, deployVars, svcVars>>

\* EquityMonitor.__init__ (lines 49-51) and an empty cache.
MonitorInit ==
    /\ metrics = [x \in Accounts |-> NoMetrics]
    /\ cache = [x \in Accounts |-> NoMetrics]
    /\ seen = [x \in Accounts |-> <<>>]

\* ------------------------------------------------------- start / stop calls
\* EquityStreamService.start_stream / stop_stream (lines 720-728): the coroutine
\* is handed to the loop thread and the caller blocks on its result. Of the
\* free call slots the lowest is used.
CallFree(c) ==
    \/ calls[c].pc = "idle"
    \/ calls[c].pc = "returned" /\ calls[c].owner = "client"

Invoke(c, op, a, who) ==
    /\ CallFree(c)
    /\ \A d \in CallIds : d < c => ~CallFree(d)
    /\ opsLeft > 0
    /\ opsLeft' = opsLeft - 1
    /\ calls' = [calls EXCEPT ![c] = [IdleCall EXCEPT !.op = op, !.acct = a,
                                                     !.pc = "pending",
                                                     !.owner = who]]
    /\ startHist' = IF op = "stop" /\ who = "client"
                    THEN [startHist EXCEPT ![a].open = FALSE]
                    ELSE startHist
    /\ UNCHANGED <<streams, tasks, lock, vendor, faultsLeft>>

\* A caller outside the model (a page, a service) starts or stops a stream.
InvokeStart(c, a) ==
    Invoke(c, "start", a, "client") /\ UNCHANGED <<storeVars, procVars, tickVars, sideVars>>
InvokeStop(c, a) ==
    Invoke(c, "stop", a, "client") /\ UNCHANGED <<storeVars, procVars, tickVars, sideVars>>

Returned(c, r) == [calls[c] EXCEPT !.pc = "returned", !.result = r]

LogStart(c, a, r) ==
    IF calls[c].owner = "client" /\ startHist[a].open /\ Len(startHist[a].rets) < 2
    THEN [startHist EXCEPT ![a].rets = Append(@, r)]
    ELSE startHist

UnusedTasks == {t \in TaskIds : tasks[t].pc = "unused"}

\* start_equity_stream, lines 507-516: the lock is taken; a live task makes the
\* call return False; otherwise the call goes on to initialize_account, which
\* awaits the store with the lock held.
StartCheck(c) ==
    /\ calls[c].pc = "pending"
    /\ calls[c].op = "start"
    /\ lock = 0
    /\ LET a == calls[c].acct IN
       IF AlreadyRunning(a)
       THEN /\ calls' = [calls EXCEPT ![c] = Returned(c, "false")]
            /\ startHist' = LogStart(c, a, "false")
            /\ lock' = 0
       ELSE /\ UnusedTasks # {}
            /\ calls' = [calls EXCEPT ![c].pc = "init"]
            /\ lock' = c
            /\ startHist' = startHist
    /\ UNCHANGED <<streams, tasks, vendor, opsLeft, faultsLeft>>
    /\ UNCHANGED <<storeVars, procVars, tickVars, sideVars>>

\* start_equity_stream, lines 514-523: initialize_account has read the store
\* and what it raises is caught; the task is created and recorded, the lock
\* released, True returned. The call record keeps the task it created.
StartCreate(c) ==
    /\ calls[c].pc = "init"
    /\ LET a == calls[c].acct
           t == CHOOSE x \in UnusedTasks : \A y \in UnusedTasks : x <= y
       IN /\ metrics' = [metrics EXCEPT ![a] =
                           MetricsAfterInitialize(@, periods, samples, a, now)]
          /\ tasks' = [tasks EXCEPT ![t] = BlankTask(a, "loop", FALSE)]
          /\ streams' = [streams EXCEPT ![a] = [task |-> t, lid |-> NoListener]]
          /\ startHist' = LogStart(c, a, "true")
          /\ calls' = [calls EXCEPT ![c] = [Returned(c, "true") EXCEPT !.task = t]]
    /\ lock' = 0
    /\ UNCHANGED <<vendor, opsLeft, faultsLeft>>
    /\ UNCHANGED <<storeVars, procVars, tickVars>>
    /\ UNCHANGED <<sampleVars, deployVars, cache, seen, monTicksLeft, svcVars>>

\* What a stop for an account without entry returns (line 529).
StopUnknownResultTrue == "true"
StopUnknownResult == "false"

\* stop_equity_stream, lines 526-532: no entry, return False; otherwise the
\* entry's task and stop event are read and the event is set.
StopCheck(c) ==
    /\ calls[c].pc = "pending"
    /\ calls[c].op = "stop"
    /\ lock = 0
    /\ LET a == calls[c].acct IN
       IF ~InStreams(a)
       THEN /\ calls' = [calls EXCEPT ![c] = Returned(c, StopUnknownResult)]
            /\ tasks' = tasks
       ELSE /\ calls' = [calls EXCEPT ![c].pc = "waiting",
                                      ![c].task = streams[a].task]
            /\ tasks' = [tasks EXCEPT ![streams[a].task].stop =
                            (tasks[streams[a].task].pc # "done")]
    /\ UNCHANGED <<streams, lock, vendor, startHist, opsLeft, faultsLeft>>
    /\ UNCHANGED <<storeVars, procVars, tickVars, sideVars>>

\* The longest the task can stay in its present await, in tenths of a second.
WaitTenths(t) ==
    CASE tasks[t].pc = "attaching"  -> AttachTimeout * 10
      [] tasks[t].pc = "wait_conn"  -> ConnectTimeout * 10
      [] tasks[t].pc = "watchdog"   -> WatchdogSleep * 10
      [] tasks[t].pc = "sdk_pause"  -> SdkPause * 10
      [] tasks[t].pc = "conn_pause" -> ConnectRetryPause * 10
      [] tasks[t].pc = "backoff"    ->
            Min(tasks[t].backoff, BackoffMax) * JitterMaxTenths
      [] OTHER -> 0

\* stop_equity_stream, lines 535-542: the task is still in an await when the
\* 10 s are over. wait_for cancels it and waits for it: CancelledError is raised
\* in _run, passes line 664 and runs the finally; wait_for raises TimeoutError;
\* the handler cancels the finished task again and awaits it, which raises
\* CancelledError, not an Exception, so `except Exception: pass` lets it through.
StopTimeout(c) ==
    /\ calls[c].pc = "waiting"
    /\ LET t == calls[c].task IN
       /\ TaskLive(t)
       /\ WaitTenths(t) > StopWaitTimeout * 10
       /\ TaskEnds(t, TRUE)
    /\ calls' = [calls EXCEPT ![c].forced = TRUE]
    /\ UNCHANGED <<streams, lock, startHist, opsLeft, faultsLeft>>
    /\ UNCHANGED <<storeVars, procVars, tickVars, sideVars>>

\* What the caller of stop_equity_stream gets once the wait is over: True
\* (line 548), or the CancelledError that left the TimeoutError handler.
StopOutcome(c) ==
    IF calls[c].forced THEN "cancelled_error" ELSE "true"

\* stop_equity_stream, lines 543-548: the awaited task is done; under the lock
\* the account's entry is popped.
StopFinish(c) ==
    /\ calls[c].pc = "waiting"
    /\ TaskDone(calls[c].task)
    /\ lock = 0
    /\ streams' = [streams EXCEPT ![calls[c].acct] = NoEntry]
    /\ calls' = [calls EXCEPT ![c] = Returned(c, StopOutcome(c))]
    /\ UNCHANGED <<tasks, lock, vendor, startHist, opsLeft, faultsLeft>>
    /\ UNCHANGED <<storeVars, procVars, tickVars, sideVars>>

\* ------------------------------------------------------------------ store
\* plan_specifications: the thresholds of the plan, stored as 10.00 for 10 %
\* (monitoring_engine.py lines 181-183).
PlanProfitTargetPct == 10
PlanMaxDrawdownPct == 10

NoBar == [open |-> -1, high |-> -1, low |-> -1, close |-> -1]
Bar(o, h, l, c) == [open |-> o, high |-> h, low |-> l, close |-> c]

\* The bars the stream writes in the lifecycle specification: a quiet minute, a
\* spike to +10 % that falls back, a dip to -10 % that recovers.
FlowBars == {Bar(100, 100, 100, 100), Bar(100, 110, 100, 100),
             Bar(100, 100, 90, 100)}

Max(a, b) == IF a > b THEN a ELSE b

\* An INSERT that replaces the stored row by the bucket.
UpsertReplace(old, new) == new

\* _persist_bar's INSERT ... ON CONFLICT (equity_stream_manager.py lines 331-349).
UpsertBar(old, new) ==
    IF old = NoBar THEN new
    ELSE [open |-> old.open, high |-> Max(old.high, new.high),
          low |-> Min(old.low, new.low), close |-> new.close]

\* The bars of external id x at or after time s, as a set of minutes.
BarsSince(b, x, s) == {m \in Minutes : m >= s /\ b[x][m] # NoBar}
FirstOf(S) == CHOOSE m \in S : \A k \in S : m <= k
LastOf(S) == CHOOSE m \in S : \A k \in S : m >= k

OpenPeriods(ps, x) ==
    {p \in DOMAIN ps : ps[p].ext = x /\ ps[p].status = "active" /\ ~ps[p].ended}

\* The difference with the first bar taken from the whole table.
CurrentProfitAllBars(b, ps, x, p) ==
    LET all == BarsSince(b, x, 0)
    IN IF all = {} THEN 0
       ELSE b[x][LastOf(all)].close - b[x][FirstOf(all)].open

\* _update_account_current_profit (equity_stream_manager.py lines 357-402): the
\* value the UPDATE writes for external id x, given the bars b. LIMIT 1 takes
\* one of the open periods.
CurrentProfit(b, ps, x, p) ==
    LET since == BarsSince(b, x, ps[p].start)
        all == BarsSince(b, x, 0)
    IN IF since = {} \/ all = {} THEN 0
       ELSE b[x][LastOf(all)].close - b[x][FirstOf(since)].open

\* _persist_bar (equity_stream_manager.py lines 323-355): the bar of the
\* completed minute m of external id x is upserted, then current_profit of
\* every account of x is written.
PersistBar(x, m, bar) ==
    /\ barsLeft > 0
    /\ m = now - 1
    /\ \E i \in AcctIds : accts[i].ext = x
    /\ barsLeft' = barsLeft - 1
    /\ bars' = [bars EXCEPT ![x][m] = UpsertBar(@, bar)]
    /\ \E p \in OpenPeriods(periods, x) \cup {0} :
          /\ p = 0 => OpenPeriods(periods, x) = {}
          /\ accts' = [i \in AcctIds |->
                IF accts[i].ext = x
                THEN [accts[i] EXCEPT !.profit =
                        IF p = 0 THEN 0 ELSE CurrentProfit(bars', periods, x, p)]
                ELSE accts[i]]
    /\ UNCHANGED <<periods, events, fresh, now, dbFaultsLeft>>
    /\ UNCHANGED <<procVars, streamVars, tickVars, sideVars>>

\* Time passes: NOW() reaches the next minute, and a tick that was fresh may
\* no longer be within the last 60 s.
Advance ==
    /\ now < MaxTime
    /\ now' = now + 1
    /\ \E keep \in SUBSET {x \in Accounts : fresh[x] # "none"} :
          fresh' = [x \in Accounts |-> IF x \in keep THEN fresh[x] ELSE "none"]
    /\ UNCHANGED <<accts, periods, bars, events, barsLeft, dbFaultsLeft>>
    /\ UNCHANGED <<procVars, streamVars, tickVars, sideVars>>

\* An accounts row as the purchase leaves it. plan tells whether the
\* plan_specifications rows of the account's plan carry the two thresholds
\* ("ok") or NULL ("null").
NewAccount(x) ==
    [ext |-> x, status |-> "pending_start", phase |-> "none", enabled |-> TRUE,
     in_review |-> FALSE, passed_at |-> FALSE, closed_at |-> FALSE, profit |-> 0,
     plan |-> "ok"]

\* The deployed accounts are two accounts of one user on the same MT login,
\* waiting for their "Start Evaluation" click.
StoreInit ==
    /\ accts = [i \in AcctIds |-> NewAccount(1)]
    /\ periods = <<>>
    /\ bars = [x \in Accounts |-> [m \in Minutes |-> NoBar]]
    /\ events = <<>>
    /\ fresh = [x \in Accounts |-> "none"]
    /\ now = 0

\* ----------------------------------------------------------------- engine
\* get_active_accounts (monitoring_engine.py lines 41-82): accounts joined to
\* trading_periods on the external id and to the plan row of the period's phase.
ActiveRows ==
    {[acct |-> i, ext |-> accts[i].ext, period |-> p,
      ptype |-> periods[p].ptype, start |-> periods[p].start,
      plan |-> accts[i].plan] :
        <<i, p>> \in {ip \in AcctIds \X DOMAIN periods :
            /\ accts[ip[1]].status = "active"
            /\ accts[ip[1]].enabled
            /\ periods[ip[2]].ext = accts[ip[1]].ext
            /\ periods[ip[2]].status = "active"
            /\ ~periods[ip[2]].ended}}

\* get_period_baseline (lines 84-107): the open of the first bar at or after the
\* period start; -1 stands for None.
PeriodBaseline(b, x, s) ==
    IF BarsSince(b, x, s) = {} THEN -1 ELSE b[x][FirstOf(BarsSince(b, x, s))].open

RECURSIVE MaxHigh(_, _, _)
MaxHigh(b, x, S) ==
    IF S = {} THEN -1
    ELSE LET m == CHOOSE k \in S : TRUE
         IN Max(b[x][m].high, MaxHigh(b, x, S \ {m}))

RECURSIVE MinLow(_, _, _)
MinLow(b, x, S) ==
    LET m == CHOOSE k \in S : TRUE
    IN IF S = {m} THEN b[x][m].low
       ELSE Min(b[x][m].low, MinLow(b, x, S \ {m}))

\* The high of the latest bar alone, which get_period_high_low does not use.
LatestHigh(b, x, s) ==
    IF BarsSince(b, x, s) = {} THEN -1 ELSE b[x][LastOf(BarsSince(b, x, s))].high

\* get_period_high_low (lines 137-163): MAX(high) and MIN(low) over the bars at
\* or after the period start.
PeriodHigh(b, x, s) == MaxHigh(b, x, BarsSince(b, x, s))
PeriodLow(b, x, s) == MinLow(b, x, BarsSince(b, x, s))

\* (value - baseline) / baseline >= pct / 100, for baseline > 0 (line 218)
GainAtLeast(value, baseline, pct) == (value - baseline) * 100 >= pct * baseline
\* A limit that any bar not above the baseline reaches, which line 226 is not.
GainBelowBaseline(value, baseline, pct) == value <= baseline

\* (value - baseline) / baseline <= -pct / 100, for baseline > 0 (line 226)
GainAtMost(value, baseline, pct) == (value - baseline) * 100 <= (0 - pct) * baseline

\* check_account with the two tests of lines 218 and 226 in the other order.
CheckAccountDrawdownFirst(b, x, s) ==
    LET baseline == PeriodBaseline(b, x, s) IN
    IF baseline = -1 \/ baseline = 0 THEN "none"
    ELSE IF BarsSince(b, x, s) = {} THEN "none"
    ELSE IF GainAtMost(PeriodLow(b, x, s), baseline, PlanMaxDrawdownPct)
         THEN "drawdown_breach"
    ELSE IF GainAtLeast(PeriodHigh(b, x, s), baseline, PlanProfitTargetPct)
         THEN "profit_target"
    ELSE "none"

\* check_account (lines 165-233). `if not baseline` also takes a baseline of 0.
CheckAccount(b, x, s) ==
    LET baseline == PeriodBaseline(b, x, s) IN
    IF baseline = -1 \/ baseline = 0 THEN "none"
    ELSE IF BarsSince(b, x, s) = {} THEN "none"
    ELSE IF GainAtLeast(PeriodHigh(b, x, s), baseline, PlanProfitTargetPct)
         THEN "profit_target"
    ELSE IF GainAtMost(PeriodLow(b, x, s), baseline, PlanMaxDrawdownPct)
         THEN "drawdown_breach"
    ELSE "none"

NoRow == [acct |-> 0, ext |-> 0, period |-> 0, ptype |-> "none", start |-> 0,
          plan |-> "none"]

\* EvaluationMonitor between two cycles.
\* errors are the accounts whose error the running cycle has logged.
EngineIdle == [pc |-> "idle", rows |-> {}, row |-> NoRow, decision |-> "none",
               stopped |-> "none", errors |-> {}]

\* run_check_cycle, lines 421-422: the rows are read once per cycle. A cycle
\* that reads no row does nothing.
EngineSelect ==
    /\ engine.pc = "idle"
    /\ ActiveRows # {}
    /\ engine' = [EngineIdle EXCEPT !.pc = "loop", !.rows = ActiveRows]
    /\ UNCHANGED <<attempts, attemptsLeft, storeVars, streamVars, tickVars, sideVars>>

\* check_account, lines 182-183: float() of a NULL threshold raises TypeError
\* before any bar is read.
CheckRaises(r) == r.plan = "null"

\* The rows left to the for loop if the exception of row r left the loop.
RowsAfterAbort(rows, r) == {}

\* The except clause of lines 432-436 sits inside the for loop: the error is
\* logged and the loop goes on with the rows after r.
RowsAfterError(rows, r) == rows \ {r}

\* A pass of the cycle's loop body for one row r of the snapshot: check_account
\* (lines 425-431); a decision starts the handler, no decision ends the row, an
\* exception is caught at the row (lines 432-436).
EngineCheckRow(r) ==
    /\ engine.pc = "loop"
    /\ r \in engine.rows
    /\ LET d == CheckAccount(bars, r.ext, r.start) IN
       engine' = IF CheckRaises(r)
                 THEN [engine EXCEPT !.rows = RowsAfterError(@, r),
                                     !.decision = "error", !.row = r,
                                     !.errors = @ \cup {r.acct}]
                 ELSE IF d = "none"
                 THEN [engine EXCEPT !.rows = @ \ {r}, !.decision = "none",
                                     !.row = r]
                 ELSE [engine EXCEPT !.rows = @ \ {r}, !.decision = d,
                                     !.row = r, !.stopped = "none",
                                     !.pc = "upd_account"]
    /\ UNCHANGED <<attempts, attemptsLeft, storeVars, streamVars, tickVars, sideVars>>

\* The accounts row the handler's first UPDATE writes: handle_profit_target
\* (lines 248-259, 294-303) or handle_drawdown_breach (lines 347-358).
AccountAfter(row, d, ptype) ==
    IF d = "drawdown_breach"
    THEN [row EXCEPT !.status = "failed", !.enabled = FALSE, !.closed_at = TRUE]
    ELSE IF ptype = "phase_1"
    THEN [row EXCEPT !.status = "passed", !.in_review = TRUE, !.passed_at = TRUE]
    ELSE [row EXCEPT !.status = "awaiting_withdrawal"]

\* The trading_periods row the handler's second UPDATE writes (lines 262-271,
\* 306-315, 361-370).
PeriodAfter(row, d, ptype) ==
    IF d = "drawdown_breach"
    THEN [row EXCEPT !.ended = TRUE, !.reason = "drawdown_breach",
                     !.status = "failed"]
    ELSE [row EXCEPT !.ended = TRUE, !.status = "completed",
                     !.reason = IF ptype = "phase_1" THEN "profit_target_hit"
                                ELSE "profit_cap_hit"]

\* The event type the handler logs (lines 277-278, 321-322, 376-377).
EventType(d, ptype) ==
    IF d = "drawdown_breach" THEN "evaluation_failed"
    ELSE IF ptype = "phase_1" THEN "evaluation_passed"
    ELSE "profit_cap_hit"

\* UPDATE accounts ... WHERE id = account_id. execute_query swallows the error
\* of a statement that fails (db.py lines 39-45) and the handler goes on.
EngineUpdateAccount ==
    /\ engine.pc = "upd_account"
    /\ \E ok \in BOOLEAN :
          /\ ok \/ dbFaultsLeft > 0
          /\ dbFaultsLeft' = IF ok THEN dbFaultsLeft ELSE dbFaultsLeft - 1
          /\ accts' = IF ok
                      THEN [accts EXCEPT ![engine.row.acct] =
                              AccountAfter(@, engine.decision, engine.row.ptype)]
                      ELSE accts
    /\ engine' = [engine EXCEPT !.pc = "upd_period"]
    /\ UNCHANGED <<periods, bars, events, fresh, now, barsLeft>>
    /\ UNCHANGED <<attempts, attemptsLeft, streamVars, tickVars, sideVars>>

\* UPDATE trading_periods ... WHERE trading_period_id = trading_period_id; a
\* statement that fails is swallowed in the same way.
EngineUpdatePeriod ==
    /\ engine.pc = "upd_period"
    /\ \E ok \in BOOLEAN :
          /\ ok \/ dbFaultsLeft > 0
          /\ dbFaultsLeft' = IF ok THEN dbFaultsLeft ELSE dbFaultsLeft - 1
          /\ periods' = IF ok
                        THEN [periods EXCEPT ![engine.row.period] =
                                PeriodAfter(@, engine.decision, engine.row.ptype)]
                        ELSE periods
    /\ engine' = [engine EXCEPT !.pc = "stop_stream"]
    /\ UNCHANGED <<accts, bars, events, fresh, now, barsLeft>>
    /\ UNCHANGED <<attempts, attemptsLeft, streamVars, tickVars, sideVars>>

\* The engine is constructed by main() alone (lines 470-477) and runs as a
\* process of its own. get_service() (equity_stream_manager.py lines 735-742)
\* gives that process its own EquityStreamService, and nothing in the process
\* starts a stream: this is the _streams map of the engine's manager.
EngineProcessStreams == [a \in Accounts |-> NoEntry]

\* stop_equity_stream (equity_stream_manager.py lines 525-529) on the engine
\* process's manager.
EngineStopResult(x) ==
    IF EngineProcessStreams[x].task = NoTask THEN StopUnknownResult ELSE "true"

\* _stop_stream (lines 390-398): stop_stream of the external id is called on
\* the service of the engine's process.
EngineStopStream ==
    /\ engine.pc = "stop_stream"
    /\ engine' = [engine EXCEPT !.pc = "log_event",
                                !.stopped = EngineStopResult(engine.row.ext)]
    /\ UNCHANGED <<attempts, attemptsLeft, storeVars, streamVars, tickVars, sideVars>>

\* _log_event (lines 400-415); the handler and the row are finished.
EngineLogEvent ==
    /\ engine.pc = "log_event"
    /\ events' = Append(events, [acct |-> engine.row.acct,
                                 type |-> EventType(engine.decision,
                                                    engine.row.ptype)])
    /\ engine' = [engine EXCEPT !.pc = "loop"]
    /\ UNCHANGED <<accts, periods, bars, fresh, now, barsLeft, dbFaultsLeft>>
    /\ UNCHANGED <<attempts, attemptsLeft, streamVars, tickVars, sideVars>>

\* The for loop of line 424 is exhausted; run() sleeps until the next cycle.
EngineCycleEnds ==
    /\ engine.pc = "loop"
    /\ engine.rows = {}
    /\ engine' = EngineIdle
    /\ UNCHANGED <<attempts, attemptsLeft, storeVars, streamVars, tickVars, sideVars>>

EngineStep ==
    \/ EngineSelect
    \/ \E r \in engine.rows : EngineCheckRow(r)
    \/ EngineUpdateAccount
    \/ EngineUpdatePeriod
    \/ EngineStopStream
    \/ EngineLogEvent
    \/ EngineCycleEnds

\* -------------------------------------------------------------- lifecycle
\* No attempt of the account is running. period is the period_id the last
\* attempt returned, 0 for None; ran tells whether the attempt's start_stream
\* found the stream running; task is the stream task its start_stream created.
AttemptIdle == [pc |-> "idle", ptype |-> "none", call |-> 0, retried |-> FALSE,
                result |-> "none", period |-> 0, ran |-> FALSE, task |-> NoTask]

\* attempt_start_evaluation / attempt_start_funded_stage are entered (lines
\* 98-123, 187-205) and start_stream of the external id is called.
BeginAttempt(i, ptype, c) ==
    /\ attempts[i].pc = "idle"
    /\ attemptsLeft > 0
    /\ attemptsLeft' = attemptsLeft - 1
    /\ Invoke(c, "start", accts[i].ext, "attempt")
    /\ attempts' = [attempts EXCEPT ![i] =
                      [AttemptIdle EXCEPT !.pc = "starting", !.ptype = ptype,
                                          !.call = c]]
    /\ UNCHANGED <<engine, storeVars, tickVars, sideVars>>

\* start_stream has returned (lines 123-128, 201-205): False ends the attempt.
AttemptStartReturns(i) ==
    /\ attempts[i].pc = "starting"
    /\ calls[attempts[i].call].pc = "returned"
    /\ attempts' = [attempts EXCEPT ![i] =
          IF calls[attempts[i].call].result = "true"
          THEN [@ EXCEPT !.pc = "polling", !.call = 0,
                         !.task = calls[attempts[i].call].task]
          ELSE [AttemptIdle EXCEPT !.result = "failed", !.ran = TRUE]]
    /\ calls' = [calls EXCEPT ![attempts[i].call] = IdleCall]
    /\ UNCHANGED <<streams, tasks, lock, vendor, startHist, opsLeft, faultsLeft>>
    /\ UNCHANGED <<engine, attemptsLeft, storeVars, tickVars, sideVars>>

\* _has_equity_data (lines 315-328) finds a tick of the last 60 s (lines
\* 133-136, 209-211).
AttemptSeesData(i) ==
    /\ attempts[i].pc = "polling"
    /\ fresh[accts[i].ext] # "none"
    /\ attempts' = [attempts EXCEPT ![i].pc = "flat_check"]
    /\ UNCHANGED <<engine, attemptsLeft, storeVars, streamVars, tickVars, sideVars>>

\* The 30 polls found nothing (lines 137-144, 212-217).
AttemptPollTimeout(i) ==
    /\ attempts[i].pc = "polling"
    /\ fresh[accts[i].ext] = "none"
    /\ attempts' = [attempts EXCEPT ![i].pc = "give_up"]
    /\ UNCHANGED <<engine, attemptsLeft, storeVars, streamVars, tickVars, sideVars>>

\* _is_account_flat (lines 330-353): the newest tick of the last 60 s has
\* |equity - balance| < 0.01; no such tick counts as not flat.
IsAccountFlat(x) == fresh[x] = "flat"

\* Lines 147-160, 220-231.
AttemptFlatCheck(i) ==
    /\ attempts[i].pc = "flat_check"
    /\ attempts' = [attempts EXCEPT ![i].pc =
                      IF IsAccountFlat(accts[i].ext) THEN "create" ELSE "give_up"]
    /\ UNCHANGED <<engine, attemptsLeft, storeVars, streamVars, tickVars, sideVars>>

\* stop_stream of the external id is called: after the poll timeout (line 141),
\* for a not flat account (line 153), or in the exception handler (line 176).
AttemptStopStream(i, c) ==
    /\ attempts[i].pc = "give_up"
    /\ Invoke(c, "stop", accts[i].ext, "attempt")
    /\ attempts' = [attempts EXCEPT ![i].pc = "stopping", ![i].call = c]
    /\ UNCHANGED <<engine, attemptsLeft, storeVars, tickVars, sideVars>>

\* stop_stream has returned or raised. What it raises outside the handler is
\* caught in line 172, where stop_stream is called once more; the attempt
\* returns its failure.
AttemptStopReturns(i) ==
    /\ attempts[i].pc = "stopping"
    /\ calls[attempts[i].call].pc = "returned"
    /\ attempts' = [attempts EXCEPT ![i] =
          IF calls[attempts[i].call].result = "cancelled_error"
             /\ ~attempts[i].retried
          THEN [@ EXCEPT !.pc = "give_up", !.call = 0, !.retried = TRUE]
          ELSE [AttemptIdle EXCEPT !.result = "failed"]]
    /\ calls' = [calls EXCEPT ![attempts[i].call] = IdleCall]
    /\ UNCHANGED <<streams, tasks, lock, vendor, startHist, opsLeft, faultsLeft>>
    /\ UNCHANGED <<engine, attemptsLeft, storeVars, tickVars, sideVars>>

\* The row _create_trading_period inserts (lines 378-408).
NewPeriod(i, x, ptype, t) ==
    [acct |-> i, ext |-> x, ptype |-> ptype, start |-> t, ended |-> FALSE,
     status |-> "active", reason |-> "none"]

\* Lines 166, 237: _create_trading_period (lines 379-408). The INSERT returns
\* the new trading_period_id; a statement that fails is swallowed by
\* execute_query (db.py lines 39-45), which returns no row, and
\* _create_trading_period returns None.
AttemptCreatePeriod(i, ok) ==
    /\ attempts[i].pc = "create"
    /\ Len(periods) < MaxPeriods
    /\ ok \/ dbFaultsLeft > 0
    /\ dbFaultsLeft' = IF ok THEN dbFaultsLeft ELSE dbFaultsLeft - 1
    /\ periods' = IF ok
                  THEN Append(periods, NewPeriod(i, accts[i].ext,
                                                 attempts[i].ptype, now))
                  ELSE periods
    /\ attempts' = [attempts EXCEPT ![i].pc = "set_status",
                                    ![i].period = IF ok THEN Len(periods') ELSE 0]
    /\ UNCHANGED <<accts, bars, events, fresh, now, barsLeft>>
    /\ UNCHANGED <<engine, attemptsLeft, streamVars, tickVars, sideVars>>

\* Lines 167-173, 238-244: _set_account_status (lines 427-440) by account id,
\* whose UPDATE may fail like the INSERT; the attempt returns success.
AttemptSetStatus(i, ok) ==
    /\ attempts[i].pc = "set_status"
    /\ ok \/ dbFaultsLeft > 0
    /\ dbFaultsLeft' = IF ok THEN dbFaultsLeft ELSE dbFaultsLeft - 1
    /\ accts' = IF ok
                THEN [accts EXCEPT ![i].status = "active",
                                   ![i].phase = attempts[i].ptype]
                ELSE accts
    /\ attempts' = [attempts EXCEPT ![i] =
                      [AttemptIdle EXCEPT !.result = "success",
                                          !.ptype = attempts[i].ptype,
                                          !.period = attempts[i].period]]
    /\ UNCHANGED <<periods, bars, events, fresh, now, barsLeft>>
    /\ UNCHANGED <<engine, attemptsLeft, streamVars, tickVars, sideVars>>

AttemptStep(i) ==
    \/ \E ptype \in {"phase_1", "funded"}, c \in CallIds : BeginAttempt(i, ptype, c)
    \/ AttemptStartReturns(i)
    \/ AttemptSeesData(i)
    \/ AttemptPollTimeout(i)
    \/ AttemptFlatCheck(i)
    \/ \E c \in CallIds : AttemptStopStream(i, c)
    \/ AttemptStopReturns(i)
    \/ \E ok \in BOOLEAN : AttemptCreatePeriod(i, ok)
    \/ \E ok \in BOOLEAN : AttemptSetStatus(i, ok)

\* DBEquityBalanceListener.on_equity_or_balance_updated (equity_stream_manager.py
\* lines 433-459) of the listener task t has attached: the tick is inserted
\* into equity_balance_ticks (lines 408-415). The tick is flat or not.
TickArrives(t, kind) ==
    /\ tasks[t].pc \in {"attached", "wait_conn", "watchdog"}
    /\ tasks[t].lid # NoListener
    /\ fresh[tasks[t].acct] # kind
    /\ fresh' = [fresh EXCEPT ![tasks[t].acct] = kind]
    /\ UNCHANGED <<accts, periods, bars, events, now, barsLeft, dbFaultsLeft>>
    /\ UNCHANGED <<procVars, streamVars, tickVars, sideVars>>

\* ------------------------------------------------------------ tick pipeline
\* The equities the vendor reports. The balance of every account is 100, so a
\* tick of 100 is a flat sample and any other an open position.
TickValues == {90, 100, 110}
TickKind(e) == IF e = 100 THEN "flat" ELSE "open"

\* No callback of the listener is running. handed are the consumers the last
\* callback has called with its tick, caught the failures the listener has
\* logged so far.
CallbackIdle == [pc |-> "idle", equity |-> 0, ts |-> 0, handed |-> {},
                 outcome |-> "none", caught |-> 0]

\* process_tick, lines 300-315: a new bucket opens at the tick, an existing one
\* is widened and its close overwritten.
TickInto(bucket, e) ==
    IF bucket = NoBar THEN Bar(e, e, e, e)
    ELSE [bucket EXCEPT !.high = Max(@, e), !.low = Min(@, e), !.close = e]

\* Lines 279 and 318-319: the bar of minute m is complete at NOW() = t.
BarComplete(m, t) == t - m >= 1

\* The store after the INSERT ... ON CONFLICT of _persist_bar (lines 331-349);
\* execute_query swallows a failed statement (db.py lines 39-45).
BarsAfterPersist(b, x, m, bar, ok) ==
    IF ok THEN [b EXCEPT ![x][m] = UpsertBar(@, bar)] ELSE b

\* The memory after the flush of bucket (x, m): lines 285-286 and 321 delete
\* the bucket whatever became of the write.
BucketsAfterFlush(bk, x, m) == [bk EXCEPT ![x][m] = NoBar]

\* _update_account_current_profit (lines 357-402) for the external ids X, read
\* from the bars b.
AcctsAfterProfit(b, X) ==
    [i \in AcctIds |->
        IF accts[i].ext \in X
        THEN LET open == OpenPeriods(periods, accts[i].ext) IN
             [accts[i] EXCEPT !.profit =
                 IF open = {} THEN 0
                 ELSE CurrentProfit(b, periods, accts[i].ext,
                                    CHOOSE p \in open : \A q \in open : p >= q)]
        ELSE accts[i]]

\* The vendor delivers a tick of equity e to the listener of task t
\* (on_equity_or_balance_updated, lines 433-442): the timestamp is taken. The
\* vendor SDK awaits the callback of a listener before it delivers the next.
CallbackEnters(t, e) ==
    /\ tasks[t].pc \in {"attached", "wait_conn", "watchdog"}
    /\ tasks[t].lid # NoListener
    /\ cb[tasks[t].acct].pc = "idle"
    /\ ticksLeft > 0
    /\ now < MaxTime
    /\ ticksLeft' = ticksLeft - 1
    /\ cb' = [cb EXCEPT ![tasks[t].acct] =
                [CallbackIdle EXCEPT !.pc = "sink", !.equity = e, !.ts = now,
                                     !.caught = cb[tasks[t].acct].caught]]
    /\ UNCHANGED <<buckets, fed, stored, tickFaultsLeft>>
    /\ UNCHANGED <<streamVars, storeVars, procVars, sideVars>>

\* The callback c if the exception of its consumer left it.
CallbackRaised(c) ==
    [c EXCEPT !.pc = "idle", !.outcome = "raised", !.handed = @ \cup {c.pc}]

\* What the except clause of lines 456-459 leaves of a callback c whose
\* consumer raised: the error is logged and the callback returns.
CallbackCaught(c) ==
    [c EXCEPT !.pc = "idle", !.outcome = "caught", !.handed = @ \cup {c.pc},
              !.caught = @ + 1]

\* A consumer raises inside the try block of lines 444-454 (to_thread cannot
\* run the statement, the monitor or the aggregator fails on the value).
CallbackFails(x) ==
    /\ cb[x].pc \in {"sink", "monitor", "agg"}
    /\ tickFaultsLeft > 0
    /\ tickFaultsLeft' = tickFaultsLeft - 1
    /\ cb' = [cb EXCEPT ![x] = CallbackCaught(@)]
    /\ UNCHANGED <<buckets, fed, stored, ticksLeft>>
    /\ UNCHANGED <<streamVars, storeVars, procVars, sideVars>>

\* insert_equity_tick (lines 408-415, 446): the row is inserted with the time
\* of the insert. The table of the model keeps the rows as long as samplesLeft
\* allows, its ts in the minutes of now.
CallbackSink(x) ==
    /\ cb[x].pc = "sink"
    /\ fresh' = [fresh EXCEPT ![x] = TickKind(cb[x].equity)]
    /\ cb' = [cb EXCEPT ![x].pc = "monitor", ![x].handed = @ \cup {"sink"}]
    /\ samples' = IF samplesLeft > 0
                  THEN Append(samples, [ts |-> now, acct |-> x,
                                        equity |-> cb[x].equity, balance |-> 100])
                  ELSE samples
    /\ samplesLeft' = IF samplesLeft > 0 THEN samplesLeft - 1 ELSE samplesLeft
    /\ UNCHANGED <<accts, periods, bars, events, now, barsLeft, dbFaultsLeft>>
    /\ UNCHANGED <<buckets, fed, stored, ticksLeft, tickFaultsLeft>>
    /\ UNCHANGED <<clock, flatq>>
    /\ UNCHANGED <<streamVars, procVars, deployVars, monVars, svcVars>>

\* Lines 449-450: the tick is handed to EquityMonitor.process_tick.
CallbackMonitor(x) ==
    /\ cb[x].pc = "monitor"
    /\ cb' = [cb EXCEPT ![x].pc = "agg", ![x].handed = @ \cup {"monitor"}]
    /\ MonitorUpdates(x, cb[x].equity)
    /\ UNCHANGED <<buckets, fed, stored, ticksLeft, tickFaultsLeft>>
    /\ UNCHANGED <<streamVars, storeVars, procVars, sampleVars, deployVars, svcVars>>
    /\ UNCHANGED monTicksLeft

\* OHLCAggregator.process_tick (lines 292-321, 453-454), under the aggregator's
\* lock: the tick goes into the bucket of its minute; a bucket whose minute is
\* complete is persisted at once and deleted. The callback returns.
CallbackAggregate(x, ok) ==
    /\ cb[x].pc = "agg"
    /\ LET m == cb[x].ts
           bucket == TickInto(buckets[x][m], cb[x].equity)
       IN /\ fed' = [fed EXCEPT ![x][m] = Append(@, cb[x].equity)]
          /\ IF BarComplete(m, now)
             THEN /\ ok \/ tickFaultsLeft > 0
                  /\ tickFaultsLeft' = IF ok THEN tickFaultsLeft
                                       ELSE tickFaultsLeft - 1
                  /\ bars' = BarsAfterPersist(bars, x, m, bucket, ok)
                  /\ stored' = [stored EXCEPT ![x][m] = IF ok THEN @ + 1 ELSE @]
                  /\ accts' = AcctsAfterProfit(bars', {x})
                  /\ buckets' = BucketsAfterFlush(buckets, x, m)
             ELSE /\ ok
                  /\ buckets' = [buckets EXCEPT ![x][m] = bucket]
                  /\ UNCHANGED <<bars, accts, stored, tickFaultsLeft>>
    /\ cb' = [cb EXCEPT ![x] = [@ EXCEPT !.pc = "idle", !.outcome = "returned",
                                         !.handed = @ \cup {"agg"}]]
    /\ UNCHANGED <<periods, events, fresh, now, barsLeft, dbFaultsLeft, ticksLeft>>
    /\ UNCHANGED <<streamVars, procVars, sideVars>>

\* The buckets a sweep finds complete (lines 279-283).
CompleteBuckets ==
    {xm \in Accounts \X Minutes :
        buckets[xm[1]][xm[2]] # NoBar /\ BarComplete(xm[2], now)}

\* _periodic_flush wakes up and _flush_completed_bars runs (lines 262-290),
\* under the aggregator's lock: every complete bucket is persisted and then
\* deleted; the writes of the buckets in failed are lost.
Sweep(failed) ==
    /\ CompleteBuckets # {}
    /\ failed \subseteq CompleteBuckets
    /\ Cardinality(failed) <= tickFaultsLeft
    /\ tickFaultsLeft' = tickFaultsLeft - Cardinality(failed)
    /\ bars' = [x \in Accounts |-> [m \in Minutes |->
                  IF <<x, m>> \in CompleteBuckets
                  THEN BarsAfterPersist(bars, x, m, buckets[x][m],
                                        <<x, m>> \notin failed)[x][m]
                  ELSE bars[x][m]]]
    /\ stored' = [x \in Accounts |-> [m \in Minutes |->
                    IF <<x, m>> \in CompleteBuckets \ failed
                    THEN stored[x][m] + 1 ELSE stored[x][m]]]
    /\ accts' = AcctsAfterProfit(bars', {xm[1] : xm \in CompleteBuckets})
    /\ buckets' = [x \in Accounts |-> [m \in Minutes |->
                     IF <<x, m>> \in CompleteBuckets
                     THEN BucketsAfterFlush(buckets, x, m)[x][m]
                     ELSE buckets[x][m]]]
    /\ UNCHANGED <<periods, events, fresh, now, barsLeft, dbFaultsLeft>>
    /\ UNCHANGED <<cb, fed, ticksLeft>>
    /\ UNCHANGED <<streamVars, procVars, sideVars>>

\* ------------------------------------------------------------ deployment
Users == 1..NumUsers
Logins == 1..NumAccounts

\* An accounts row as the purchase inserts it (stripe_processor.py lines
\* 140-172): no external id, no login, status 'pending_setup'.
PurchasedAccount ==
    [NewAccount(0) EXCEPT !.status = "pending_setup", !.enabled = FALSE]

\* No deployment of the account is running. result is what
\* handle_account_deployment returned, initial the dictionary
\* handle_initial_deployment returned.
NoInitial == [success |-> FALSE, can_start |-> FALSE, needs_manual_start |-> FALSE]
DeployIdle == [pc |-> "idle", login |-> 0, ext |-> 0, hop |-> FALSE,
               result |-> "none", initial |-> NoInitial]

\* check_mt5_login_ownership (lines 16-58): a row of another user with this
\* login and an external id blocks the deployment.
LoginAllowed(a, r, login, user) ==
    ~\E j \in AcctIds : /\ r[j].login = login
                        /\ a[j].ext # 0
                        /\ r[j].user # user

\* deploy_account (metaapi_deploy.py lines 85-110): the cloud account of the
\* login is looked up and created when there is none.
FreeCloudId == CHOOSE x \in Accounts : \A l \in Logins : cloud[l] # x
CloudAfterDeploy(login) ==
    IF cloud[login] # 0 THEN cloud ELSE [cloud EXCEPT ![login] = FreeCloudId]

\* handle_account_deployment, lines 84-112, submitted from the page of an
\* account without external id (accounts.py lines 1004-1052): the owner is
\* read and the ownership of the login checked; a blocked deployment logs its
\* event and returns False.
DeployCheck(i, login) ==
    /\ deploys[i].pc = "idle"
    /\ accts[i].ext = 0
    /\ deploysLeft > 0
    /\ deploysLeft' = deploysLeft - 1
    /\ IF LoginAllowed(accts, reg, login, reg[i].user)
       THEN /\ deploys' = [deploys EXCEPT ![i] =
                             [DeployIdle EXCEPT !.pc = "deploy", !.login = login]]
            /\ events' = events
       ELSE /\ deploys' = [deploys EXCEPT ![i] =
                             [DeployIdle EXCEPT !.login = login,
                                                !.result = "blocked"]]
            /\ events' = Append(events, [acct |-> i, type |-> "deployment_blocked"])
    /\ UNCHANGED <<accts, periods, bars, fresh, now, barsLeft, dbFaultsLeft>>
    /\ UNCHANGED <<reg, cloud, deployFaultsLeft>>
    /\ UNCHANGED <<streamVars, procVars, tickVars, sampleVars, monVars, svcVars>>

\* Lines 114-130: deploy_account_sync returns the cloud account's id and
\* whether the terminal has open positions.
DeployVendor(i, hop) ==
    /\ deploys[i].pc = "deploy"
    /\ cloud' = CloudAfterDeploy(deploys[i].login)
    /\ deploys' = [deploys EXCEPT ![i].pc = "save",
                                  ![i].ext = cloud'[deploys[i].login],
                                  ![i].hop = hop]
    /\ UNCHANGED <<reg, deploysLeft, deployFaultsLeft>>
    /\ UNCHANGED <<streamVars, storeVars, procVars, tickVars, sampleVars, monVars, svcVars>>

\* Lines 219-227: deploy_account_sync raises AccountDeploymentError, before or
\* after the cloud account was created (the cleanup of metaapi_deploy.py lines
\* 229-238 undeploys it and leaves it in place); the event is logged and the
\* handler returns False.
DeployVendorFails(i, made) ==
    /\ deploys[i].pc = "deploy"
    /\ deployFaultsLeft > 0
    /\ deployFaultsLeft' = deployFaultsLeft - 1
    /\ cloud' = IF made THEN CloudAfterDeploy(deploys[i].login) ELSE cloud
    /\ deploys' = [deploys EXCEPT ![i].pc = "idle", ![i].result = "failed"]
    /\ events' = Append(events, [acct |-> i, type |-> "deployment_failed"])
    /\ UNCHANGED <<accts, periods, bars, fresh, now, barsLeft, dbFaultsLeft>>
    /\ UNCHANGED <<reg, deploysLeft>>
    /\ UNCHANGED <<streamVars, procVars, tickVars, sampleVars, monVars, svcVars>>

\* Lines 132-169: the account row takes the external id and the login and
\* is enabled; the deployment event is logged.
DeploySave(i) ==
    /\ deploys[i].pc = "save"
    /\ accts' = [accts EXCEPT ![i].ext = deploys[i].ext, ![i].enabled = TRUE]
    /\ reg' = [reg EXCEPT ![i].login = deploys[i].login]
    /\ events' = Append(events, [acct |-> i, type |-> "account_deployed"])
    /\ deploys' = [deploys EXCEPT ![i].pc = "initial"]
    /\ UNCHANGED <<periods, bars, fresh, now, barsLeft, dbFaultsLeft>>
    /\ UNCHANGED <<cloud, deploysLeft, deployFaultsLeft>>
    /\ UNCHANGED <<streamVars, procVars, tickVars, sampleVars, monVars, svcVars>>

\* The status a handler would set that let the account start by itself when
\* the terminal is flat.
InitialStatusByPositions(hop) == IF hop THEN "pending_start" ELSE "active"

\* handle_initial_deployment (improved_account_flow.py lines 48-92): the
\* status it sets and the dictionary it returns.
InitialStatus(hop) == "pending_start"
InitialResult(hop) ==
    [success |-> TRUE, can_start |-> FALSE, needs_manual_start |-> TRUE]

\* _set_account_status_by_metaapi (lines 443-456): every row of the external
\* id takes the status.
AcctsAfterStatusByExt(a, x, status) ==
    [j \in AcctIds |-> IF a[j].ext = x THEN [a[j] EXCEPT !.status = status]
                       ELSE a[j]]

\* Lines 171-217: handle_initial_deployment, then the account_connected event;
\* the handler returns True.
DeployInitial(i) ==
    /\ deploys[i].pc = "initial"
    /\ accts' = AcctsAfterStatusByExt(accts, deploys[i].ext,
                                      InitialStatus(deploys[i].hop))
    /\ events' = Append(events, [acct |-> i, type |-> "account_connected"])
    /\ deploys' = [deploys EXCEPT ![i].pc = "idle", ![i].result = "true",
                                  ![i].initial = InitialResult(deploys[i].hop)]
    /\ UNCHANGED <<periods, bars, fresh, now, barsLeft, dbFaultsLeft>>
    /\ UNCHANGED <<reg, cloud, deploysLeft, deployFaultsLeft>>
    /\ UNCHANGED <<streamVars, procVars, tickVars, sampleVars, monVars, svcVars>>

DeployStep(i) ==
    \/ \E login \in Logins : DeployCheck(i, login)
    \/ \E hop \in BOOLEAN : DeployVendor(i, hop)
    \/ \E made \in BOOLEAN : DeployVendorFails(i, made)
    \/ DeploySave(i)
    \/ DeployInitial(i)

\* The accounts of the other specifications: deployed by one user on login 1,
\* whose cloud account is external id 1.
DeployInit ==
    /\ reg = [i \in AcctIds |-> [user |-> 1, login |-> 1]]
    /\ cloud = [l \in Logins |-> IF l = 1 THEN 1 ELSE 0]
    /\ deploys = [i \in AcctIds |-> DeployIdle]

DeployBudgets(n, faults) ==
    /\ deploysLeft = n
    /\ deployFaultsLeft = faults

\* ------------------------------------------------------- flatness samples
\* Money in the sample table is in thousandths of a dollar: 10000004 is
\* 10000.004. Both columns are read as float8 and their difference is taken
\* in float8; for two amounts this close the subtraction is exact, so the
\* comparison is the one of the amounts.
FreshWindow == 60
FlatTolerance == 10

\* (equity, balance) of the rows the sink inserts: equal, 0.004 apart, 0.01
\* apart and 5.00 apart.
SampleQuotes ==
    {<<10000000, 10000000>>, <<10000000, 10000004>>,
     <<10000010, 10000000>>, <<10000000, 10005000>>}

NoSample == [ts |-> 0, acct |-> 0, equity |-> 0, balance |-> 0]

\* WHERE metaapi_account_id = %s AND ts > NOW() - INTERVAL '60 seconds'
\* (lines 336-341, 362-367): the positions of the matching rows. Rows of one
\* clock reading are in insertion order, ts being the time of the insert.
RecentRows(tbl, x, t) ==
    {k \in DOMAIN tbl : tbl[k].acct = x /\ tbl[k].ts > t - FreshWindow}

\* ORDER BY ts DESC LIMIT 1 over those rows; no row gives the empty result.
NewestRow(tbl, x, t) ==
    LET R == RecentRows(tbl, x, t)
    IN IF R = {} THEN NoSample
       ELSE tbl[CHOOSE k \in R : \A j \in R : j <= k]

\* _is_account_flat, lines 349-355, on the result of its query.
IsFlatRow(row) ==
    IF row = NoSample THEN FALSE
    ELSE Abs(row.equity - row.balance) < FlatTolerance

\* _get_equity_balance, lines 374-377, on the result of its query.
EquityBalanceOf(row) ==
    IF row = NoSample THEN <<0, 0>> ELSE <<row.equity, row.balance>>

\* No flatness check is running. judged is the row the check's query returned,
\* message the two figures of the failure message.
FlatIdle == [pc |-> "idle", acct |-> 0, is_flat |-> FALSE,
             judged |-> NoSample, message |-> <<0, 0>>]

\* insert_equity_tick (equity_stream_manager.py lines 408-415) in a worker
\* thread of the stream loop: one row at the current time.
InsertSample(x, q) ==
    /\ samplesLeft > 0
    /\ samplesLeft' = samplesLeft - 1
    /\ samples' = Append(samples, [ts |-> clock, acct |-> x,
                                   equity |-> q[1], balance |-> q[2]])
    /\ UNCHANGED <<clock, flatq>>
    /\ UNCHANGED <<streamVars, storeVars, procVars, tickVars, deployVars, monVars, svcVars>>

ClockAdvance ==
    /\ clock < MaxClock * ClockStep
    /\ clock' = clock + ClockStep
    /\ UNCHANGED <<samples, flatq, samplesLeft>>
    /\ UNCHANGED <<streamVars, storeVars, procVars, tickVars, deployVars, monVars, svcVars>>

\* Line 148 (and 221): is_flat = self._is_account_flat(...). A flat account
\* goes on to create its period, so its check is over.
FlatCheck(x) ==
    /\ flatq.pc = "idle"
    /\ LET row == NewestRow(samples, x, clock)
       IN flatq' = [flatq EXCEPT !.pc = IF IsFlatRow(row) THEN "flat" ELSE "not_flat",
                                 !.acct = x,
                                 !.is_flat = IsFlatRow(row),
                                 !.judged = row]
    /\ UNCHANGED <<samples, clock, samplesLeft>>
    /\ UNCHANGED <<streamVars, storeVars, procVars, tickVars, deployVars, monVars, svcVars>>

\* Lines 150-159 (and 223-231): the second query, made for the message.
FlatMessage ==
    /\ flatq.pc = "not_flat"
    /\ flatq' = [flatq EXCEPT
                   !.pc = "refused",
                   !.message = EquityBalanceOf(NewestRow(samples, flatq.acct, clock))]
    /\ UNCHANGED <<samples, clock, samplesLeft>>
    /\ UNCHANGED <<streamVars, storeVars, procVars, tickVars, deployVars, monVars, svcVars>>

SampleInit ==
    /\ samples = <<>>
    /\ clock = 0
    /\ flatq = FlatIdle

\* -------------------------------------------------------- process singleton
\* get_service (equity_stream_manager.py lines 735-742) as the threads of one
\* process run it: the pages of the web process run in one thread per session.
ThreadIds == 1..NumThreads
ServiceIds == 1..NumThreads
NoService == 0

\* A thread that has not called get_service. mine is the service the thread
\* constructed, got the one get_service returned to it.
CallerIdle == [pc |-> "idle", mine |-> NoService, got |-> NoService]

\* Line 739: `if _service is None`.
GetServiceCheck(th) ==
    /\ callers[th].pc = "idle"
    /\ callers' = [callers EXCEPT ![th].pc =
                      IF service = NoService THEN "construct" ELSE "return"]
    /\ UNCHANGED <<service, built, mgrs, tracked, sync>>
    /\ UNCHANGED <<streamVars, storeVars, procVars, tickVars>>
    /\ UNCHANGED <<sampleVars, deployVars, monVars>>

\* Line 740, right-hand side: EquityStreamService(TOKEN, DOMAIN). __init__
\* (lines 687-697) starts the loop thread and _start_thread (lines 699-718)
\* blocks on the ready event, where the interpreter runs the other threads.
GetServiceConstruct(th) ==
    /\ callers[th].pc = "construct"
    /\ built' = built + 1
    /\ callers' = [callers EXCEPT ![th].pc = "assign", ![th].mine = built + 1]
    /\ UNCHANGED <<service, mgrs, tracked, sync>>
    /\ UNCHANGED <<streamVars, storeVars, procVars, tickVars>>
    /\ UNCHANGED <<sampleVars, deployVars, monVars>>

\* Line 740: the new object is bound to the global.
GetServiceAssign(th) ==
    /\ callers[th].pc = "assign"
    /\ service' = callers[th].mine
    /\ callers' = [callers EXCEPT ![th].pc = "return"]
    /\ UNCHANGED <<built, mgrs, tracked, sync>>
    /\ UNCHANGED <<streamVars, storeVars, procVars, tickVars>>
    /\ UNCHANGED <<sampleVars, deployVars, monVars>>

\* Line 742: `return _service` reads the global once more.
GetServiceReturn(th) ==
    /\ callers[th].pc = "return"
    /\ callers' = [callers EXCEPT ![th].pc = "has", ![th].got = service]
    /\ UNCHANGED <<service, built, mgrs, tracked, sync>>
    /\ UNCHANGED <<streamVars, storeVars, procVars, tickVars>>
    /\ UNCHANGED <<sampleVars, deployVars, monVars>>

\* The caller uses its service: start_stream (lines 720-723) of an external
\* id; start_equity_stream (lines 507-523) of that service's manager creates a
\* task unless its own _streams has a live one.
CallerStartsStream(th, x) ==
    /\ callers[th].pc = "has"
    /\ x \notin mgrs[callers[th].got]
    /\ mgrs' = [mgrs EXCEPT ![callers[th].got] = @ \cup {x}]
    /\ UNCHANGED <<service, built, callers, tracked, sync>>
    /\ UNCHANGED <<streamVars, storeVars, procVars, tickVars>>
    /\ UNCHANGED <<sampleVars, deployVars, monVars>>

\* The module is imported: _service = None (line 735); no service exists.
SingletonInit ==
    /\ service = NoService
    /\ built = 0
    /\ callers = [th \in ThreadIds |-> CallerIdle]
    /\ mgrs = [v \in ServiceIds |-> {}]

\* ------------------------------------------------- standalone stream service
\* get_accounts_needing_streams (equity_stream_service.py lines 92-125): the
\* external ids of the rows, accounts joined to trading_periods on the id.
NeedingStreams(as, ps) ==
    {x \in Accounts :
        \E i \in AcctIds, p \in DOMAIN ps :
            /\ as[i].ext = x /\ as[i].enabled /\ as[i].status = "active"
            /\ ps[p].ext = x /\ ps[p].status = "active" /\ ~ps[p].ended}

\* get_accounts_needing_stream_stop (lines 127-166): the tracked ids T that
\* have an account and no account that needs a stream.
NeedingStop(as, ps, T) ==
    {x \in T : (\E i \in AcctIds : as[i].ext = x)
                /\ x \notin NeedingStreams(as, ps)}

\* No pass is running. rows and stops are the ids the two queries returned,
\* todo the ids the running loop has before it, cur and call the id and the
\* facade call the pass waits for, back the loop the call was made in. History:
\* stopped are the ids the pass has stopped and whether each was needed by the
\* store of that moment, accts0 and periods0 the store as the pass found it.
SyncIdle == [pc |-> "idle", rows |-> {}, stops |-> {}, todo |-> {}, cur |-> 0,
             call |-> 0, back |-> "none", stopped |-> {}, accts0 |-> <<>>,
             periods0 |-> <<>>]

\* sync_streams, lines 214-215: the first query. execute_query gives [] for a
\* statement that failed (db.py lines 39-45), as for no row.
SyncReadNeeded(ok) ==
    /\ sync.pc = "idle"
    /\ ok \/ dbFaultsLeft > 0
    /\ dbFaultsLeft' = IF ok THEN dbFaultsLeft ELSE dbFaultsLeft - 1
    /\ sync' = [SyncIdle EXCEPT
                   !.pc = "read_stop",
                   !.rows = IF ok THEN NeedingStreams(accts, periods) ELSE {},
                   !.accts0 = accts, !.periods0 = periods]
    /\ UNCHANGED <<accts, periods, bars, events, fresh, now, barsLeft>>
    /\ UNCHANGED <<service, built, callers, mgrs, tracked>>
    /\ UNCHANGED <<streamVars, procVars, tickVars, sampleVars, deployVars, monVars>>

\* Lines 218-219: the second query, which is not made for an empty
\* _active_streams (lines 136-137). The first loop is entered.
SyncReadStops(ok) ==
    /\ sync.pc = "read_stop"
    /\ ok \/ (dbFaultsLeft > 0 /\ tracked # {})
    /\ dbFaultsLeft' = IF ok THEN dbFaultsLeft ELSE dbFaultsLeft - 1
    /\ sync' = [sync EXCEPT
                   !.pc = "starts",
                   !.stops = IF ok THEN NeedingStop(accts, periods, tracked)
                             ELSE {},
                   !.todo = sync.rows]
    /\ UNCHANGED <<accts, periods, bars, events, fresh, now, barsLeft>>
    /\ UNCHANGED <<service, built, callers, mgrs, tracked>>
    /\ UNCHANGED <<streamVars, procVars, tickVars, sampleVars, deployVars, monVars>>

\* Lines 222-224: a row whose id is tracked already is passed over.
SyncSkipStart(x) ==
    /\ sync.pc = "starts"
    /\ x \in sync.todo
    /\ x \in tracked
    /\ sync' = [sync EXCEPT !.todo = @ \ {x}]
    /\ UNCHANGED <<service, built, callers, mgrs, tracked>>
    /\ UNCHANGED <<streamVars, storeVars, procVars, tickVars>>
    /\ UNCHANGED <<sampleVars, deployVars, monVars>>

\* Lines 224-226 and 168-172: start_stream of an id that is not tracked calls
\* start_stream of the manager's facade.
SyncCallStart(x, c) ==
    /\ sync.pc = "starts"
    /\ x \in sync.todo
    /\ x \notin tracked
    /\ Invoke(c, "start", x, "sync")
    /\ sync' = [sync EXCEPT !.pc = "start_wait", !.cur = x, !.call = c]
    /\ UNCHANGED <<service, built, callers, mgrs, tracked>>
    /\ UNCHANGED <<storeVars, procVars, tickVars>>
    /\ UNCHANGED <<sampleVars, deployVars, monVars>>

\* Lines 173-180: the id is tracked whether the manager returned True or
\* False.
SyncStartReturns ==
    /\ sync.pc = "start_wait"
    /\ calls[sync.call].pc = "returned"
    /\ tracked' = tracked \cup {sync.cur}
    /\ calls' = [calls EXCEPT ![sync.call] = IdleCall]
    /\ sync' = [sync EXCEPT !.pc = "starts", !.todo = @ \ {sync.cur},
                            !.cur = 0, !.call = 0]
    /\ UNCHANGED <<streams, tasks, lock, vendor, startHist, opsLeft, faultsLeft>>
    /\ UNCHANGED <<service, built, callers, mgrs>>
    /\ UNCHANGED <<storeVars, procVars, tickVars>>
    /\ UNCHANGED <<sampleVars, deployVars, monVars>>

\* The first loop is over; the second (lines 229-231) goes through stop_ids.
SyncStartsDone ==
    /\ sync.pc = "starts"
    /\ sync.todo = {}
    /\ sync' = [sync EXCEPT !.pc = "stops", !.todo = sync.stops]
    /\ UNCHANGED <<service, built, callers, mgrs, tracked>>
    /\ UNCHANGED <<streamVars, storeVars, procVars, tickVars>>
    /\ UNCHANGED <<sampleVars, deployVars, monVars>>

\* Lines 229-231 and 236-238, 186-189: stop_stream of an id of the running
\* loop calls stop_stream of the manager's facade.
SyncCallStop(x, c) ==
    /\ sync.pc \in {"stops", "orphans"}
    /\ x \in sync.todo
    /\ Invoke(c, "stop", x, "sync")
    /\ sync' = [sync EXCEPT
                   !.pc = "stop_wait", !.cur = x, !.call = c, !.back = sync.pc,
                   !.stopped = @ \cup
                       {<<x, x \in NeedingStreams(accts, periods)>>}]
    /\ UNCHANGED <<service, built, callers, mgrs, tracked>>
    /\ UNCHANGED <<storeVars, procVars, tickVars>>
    /\ UNCHANGED <<sampleVars, deployVars, monVars>>

\* Lines 190-197: the id is no longer tracked, whatever the manager returned.
SyncStopReturns ==
    /\ sync.pc = "stop_wait"
    /\ calls[sync.call].pc = "returned"
    /\ tracked' = tracked \ {sync.cur}
    /\ calls' = [calls EXCEPT ![sync.call] = IdleCall]
    /\ sync' = [sync EXCEPT !.pc = sync.back, !.todo = @ \ {sync.cur},
                            !.cur = 0, !.call = 0, !.back = "none"]
    /\ UNCHANGED <<streams, tasks, lock, vendor, startHist, opsLeft, faultsLeft>>
    /\ UNCHANGED <<service, built, callers, mgrs>>
    /\ UNCHANGED <<storeVars, procVars, tickVars>>
    /\ UNCHANGED <<sampleVars, deployVars, monVars>>

\* Lines 234-236: orphaned = _active_streams - needed_ids, without stop_ids.
SyncStopsDone ==
    /\ sync.pc = "stops"
    /\ sync.todo = {}
    /\ sync' = [sync EXCEPT !.pc = "orphans",
                            !.todo = (tracked \ sync.rows) \ sync.stops]
    /\ UNCHANGED <<service, built, callers, mgrs, tracked>>
    /\ UNCHANGED <<streamVars, storeVars, procVars, tickVars>>
    /\ UNCHANGED <<sampleVars, deployVars, monVars>>

\* sync_streams returns; run() sleeps CHECK_INTERVAL_SECONDS (lines 290-300).
SyncPassEnds ==
    /\ sync.pc = "orphans"
    /\ sync.todo = {}
    /\ sync' = [sync EXCEPT !.pc = "idle"]
    /\ UNCHANGED <<service, built, callers, mgrs, tracked>>
    /\ UNCHANGED <<streamVars, storeVars, procVars, tickVars>>
    /\ UNCHANGED <<sampleVars, deployVars, monVars>>

SyncStep ==
    \/ \E ok \in BOOLEAN : SyncReadNeeded(ok)
    \/ \E ok \in BOOLEAN : SyncReadStops(ok)
    \/ \E x \in Accounts : SyncSkipStart(x)
    \/ \E x \in Accounts, c \in CallIds : SyncCallStart(x, c)
    \/ SyncStartReturns
    \/ SyncStartsDone
    \/ \E x \in Accounts, c \in CallIds : SyncCallStop(x, c)
    \/ SyncStopReturns
    \/ SyncStopsDone
    \/ SyncPassEnds

\* EquityStreamService.__init__ (lines 74-77): nothing is tracked.
SyncServiceInit ==
    /\ tracked = {}
    /\ sync = SyncIdle

ServiceInit == SingletonInit /\ SyncServiceInit

\* The side components at rest, with nothing left to do.
SideInit ==
    /\ SampleInit
    /\ samplesLeft = 0
    /\ DeployInit
    /\ DeployBudgets(0, 0)
    /\ MonitorInit
    /\ monTicksLeft = 0
    /\ ServiceInit

\* The aggregator and the listeners of a manager that has received no tick.
TickInit ==
    /\ buckets = [x \in Accounts |-> [m \in Minutes |-> NoBar]]
    /\ cb = [x \in Accounts |-> CallbackIdle]
    /\ fed = [x \in Accounts |-> [m \in Minutes |-> <<>>]]
    /\ stored = [x \in Accounts |-> [m \in Minutes |-> 0]]

ProcInit ==
    /\ engine = EngineIdle
    /\ attempts = [i \in AcctIds |-> AttemptIdle]

\* What one behaviour may still do: facade calls, vendor failures, start
\* attempts, bar writes.
Budgets(ops, faults, tries, writes) ==
    /\ opsLeft = ops
    /\ faultsLeft = faults
    /\ attemptsLeft = tries
    /\ barsLeft = writes

TickBudgets(ticks, faults) ==
    /\ ticksLeft = ticks
    /\ tickFaultsLeft = faults

StoreFaults(faults) == dbFaultsLeft = faults

StoreStep ==
    \/ \E x \in Accounts, m \in Minutes, bar \in FlowBars : PersistBar(x, m, bar)
    \/ Advance

StreamInit ==
    /\ streams = [a \in Accounts |-> NoEntry]
    /\ tasks = [t \in TaskIds |-> BlankTask(0, "unused", FALSE)]
    /\ lock = 0
    /\ calls = [c \in CallIds |-> IdleCall]
    /\ vendor = [l \in ListenerIds |-> "none"]
    /\ startHist = [a \in Accounts |-> [open |-> TRUE, rets |-> <<>>]]

TaskStep(t) ==
    \/ TaskLoopTop(t)
    \/ TaskSdkPauseDone(t)
    \/ TaskAttachReturns(t)
    \/ TaskAttachFails(t)
    \/ TaskBackoffDone(t)
    \/ TaskRecordListener(t)
    \/ TaskConnected(t)
    \/ TaskConnectTimeout(t)
    \/ TaskConnPauseDone(t)
    \/ TaskWatchdogStop(t)
    \/ TaskWatchdogTrip(t)

CallStep(c) ==
    \/ \E a \in Accounts : InvokeStart(c, a) \/ InvokeStop(c, a)
    \/ StartCheck(c)
    \/ StartCreate(c)
    \/ StopCheck(c)
    \/ StopTimeout(c)
    \/ StopFinish(c)

StreamNext ==
    \/ \E t \in TaskIds : TaskStep(t)
    \/ \E c \in CallIds : CallStep(c)

\* The stream supervisor alone, driven by callers outside the model; the store
\* and the other components stay as they are.
Init ==
    /\ StreamInit /\ StoreInit /\ ProcInit /\ TickInit /\ SideInit
    /\ Budgets(MaxOps, MaxFaults, 0, 0) /\ TickBudgets(0, 0) /\ StoreFaults(0)

Spec == Init /\ [][StreamNext]_vars

\* The stream supervisor as the lifecycle manager and the evaluation engine of
\* the same process use it, over the store.
FlowCallStep(c) ==
    \/ StartCheck(c)
    \/ StartCreate(c)
    \/ StopCheck(c)
    \/ StopTimeout(c)
    \/ StopFinish(c)

\* The vendor answers every attach and reports every connection.
FlowTaskStep(t) ==
    \/ TaskLoopTop(t)
    \/ TaskAttachReturns(t)
    \/ TaskRecordListener(t)
    \/ TaskConnected(t)
    \/ TaskWatchdogStop(t)

\* A tick reaches the listener of a task.
TickStep == \E t \in TaskIds, kind \in {"flat", "open"} : TickArrives(t, kind)

\* The web process: the pages' start attempts on the lifecycle manager and the
\* stream supervisor they share.
FlowNext ==
    \/ \E t \in TaskIds : FlowTaskStep(t)
    \/ \E c \in CallIds : FlowCallStep(c)
    \/ \E i \in AcctIds : AttemptStep(i)
    \/ TickStep

FlowInit ==
    /\ StreamInit /\ StoreInit /\ ProcInit /\ TickInit /\ SideInit
    /\ Budgets(MaxOps, 0, MaxAttempts, 0) /\ TickBudgets(0, 0)
    /\ StoreFaults(MaxStoreFaults)

SpecFlow == FlowInit /\ [][FlowNext]_vars

\* The web process, the stream's bar writes, the clock and the engine process.
SystemNext ==
    \/ FlowNext
    \/ EngineStep
    \/ StoreStep

SystemInit ==
    /\ StreamInit /\ StoreInit /\ ProcInit /\ TickInit /\ SideInit
    /\ Budgets(MaxSystemOps, 0, MaxSystemAttempts, MaxBarWrites)
    /\ TickBudgets(0, 0) /\ StoreFaults(0)

SpecSystem == SystemInit /\ [][SystemNext]_vars

\* The engine process over a store in which account 1 is in a running period
\* and the stream has written bars: every table of bars that minutes of ticks
\* at these equities can leave.
CheckPrices == {0, 90, 99, 100, 110}
CheckBars ==
    {Bar(o, h, l, c) : <<o, h, l, c>> \in
        {q \in CheckPrices \X CheckPrices \X CheckPrices \X CheckPrices :
            q[3] <= q[1] /\ q[3] <= q[4] /\ q[1] <= q[2] /\ q[4] <= q[2]}}

CheckInit ==
    /\ StreamInit /\ ProcInit /\ TickInit /\ SideInit
    /\ Budgets(0, 0, 0, 0) /\ TickBudgets(0, 0) /\ StoreFaults(0)
    /\ now = MaxTime
    /\ events = <<>>
    /\ fresh = [x \in Accounts |-> "none"]
    /\ \E ptype \in {"phase_1", "funded"}, start \in 0..MaxTime,
          f \in [Minutes -> CheckBars \cup {NoBar}] :
          /\ periods = <<NewPeriod(1, 1, ptype, start)>>
          /\ bars = [x \in Accounts |-> IF x = 1 THEN f
                                        ELSE [m \in Minutes |-> NoBar]]
          /\ accts = [i \in AcctIds |->
                IF i = 1
                THEN [NewAccount(1) EXCEPT !.status = "active", !.phase = ptype,
                                           !.profit = CurrentProfit(bars, periods, 1, 1)]
                ELSE NewAccount(1)]

SpecCheck == CheckInit /\ [][EngineStep]_vars

\* The engine process over a store with one running period per account, each
\* account on its own external id, the plan rows with or without thresholds.
CycleInit ==
    /\ StreamInit /\ ProcInit /\ TickInit /\ SideInit
    /\ Budgets(0, 0, 0, 0) /\ TickBudgets(0, 0) /\ StoreFaults(0)
    /\ now = MaxTime
    /\ events = <<>>
    /\ fresh = [x \in Accounts |-> "none"]
    /\ \E pt \in [AcctIds -> {"phase_1", "funded"}],
          pl \in [AcctIds -> {"ok", "null"}],
          f \in [Accounts -> [Minutes -> FlowBars \cup {NoBar}]] :
          /\ periods = [i \in AcctIds |->
                          NewPeriod(i, Min(i, NumAccounts), pt[i], 0)]
          /\ bars = f
          /\ accts = [i \in AcctIds |->
                [NewAccount(Min(i, NumAccounts)) EXCEPT
                    !.status = "active", !.phase = pt[i], !.plan = pl[i],
                    !.profit = CurrentProfit(bars, periods,
                                             Min(i, NumAccounts), i)]]

SpecCycle == CycleInit /\ [][EngineStep]_vars

\* The engine process over the same store when one UPDATE of a handler may
\* fail in the store. run() starts a cycle every interval (lines 440-463), so
\* the engine takes every step it can take.
TransitionInit ==
    /\ StreamInit /\ ProcInit /\ TickInit /\ SideInit
    /\ Budgets(0, 0, 0, 0) /\ TickBudgets(0, 0) /\ StoreFaults(MaxStoreFaults)
    /\ now = MaxTime
    /\ events = <<>>
    /\ fresh = [x \in Accounts |-> "none"]
    /\ \E pt \in [AcctIds -> {"phase_1", "funded"}],
          f \in [Accounts -> [Minutes -> FlowBars \cup {NoBar}]] :
          /\ periods = [i \in AcctIds |->
                          NewPeriod(i, Min(i, NumAccounts), pt[i], 0)]
          /\ bars = f
          /\ accts = [i \in AcctIds |->
                [NewAccount(Min(i, NumAccounts)) EXCEPT
                    !.status = "active", !.phase = pt[i],
                    !.profit = CurrentProfit(bars, periods,
                                             Min(i, NumAccounts), i)]]

SpecTransition == TransitionInit /\ [][EngineStep]_vars /\ WF_vars(EngineStep)

\* The threads of one process at their first use of the stream service.
SingletonNext ==
    \/ \E th \in ThreadIds : GetServiceCheck(th)
    \/ \E th \in ThreadIds : GetServiceConstruct(th)
    \/ \E th \in ThreadIds : GetServiceAssign(th)
    \/ \E th \in ThreadIds : GetServiceReturn(th)
    \/ \E th \in ThreadIds, x \in Accounts : CallerStartsStream(th, x)

FirstUseInit ==
    /\ StreamInit /\ StoreInit /\ ProcInit /\ TickInit /\ SideInit
    /\ Budgets(0, 0, 0, 0) /\ TickBudgets(0, 0) /\ StoreFaults(0)

SpecSingleton == FirstUseInit /\ [][SingletonNext]_vars

\* The process of the standalone stream service, whose manager nothing else
\* calls, next to the engine process over the same store: two accounts in
\* their first period, on one external id or on two, with a bar that reaches
\* the profit target or without. The vendor answers every attach, so that no
\* stop has to cancel its task; one statement may fail in the store.
SyncBars == {NoBar, Bar(100, 110, 100, 100)}

SyncInit ==
    /\ StreamInit /\ ProcInit /\ TickInit /\ SideInit
    /\ Budgets(MaxSyncOps, 0, 0, 0) /\ TickBudgets(0, 0)
    /\ StoreFaults(MaxStoreFaults)
    /\ now = MaxTime
    /\ events = <<>>
    /\ fresh = [x \in Accounts |-> "none"]
    /\ \E shared \in BOOLEAN, f \in [Accounts -> SyncBars] :
          LET ext(i) == IF shared THEN 1 ELSE Min(i, NumAccounts) IN
          /\ periods = [i \in AcctIds |-> NewPeriod(i, ext(i), "phase_1", 0)]
          /\ bars = [x \in Accounts |->
                        [m \in Minutes |-> IF m = 0 THEN f[x] ELSE NoBar]]
          /\ accts = [i \in AcctIds |->
                [NewAccount(ext(i)) EXCEPT
                    !.status = "active", !.phase = "phase_1",
                    !.profit = CurrentProfit(bars, periods, ext(i), i)]]

SyncNext ==
    \/ SyncStep
    \/ \E t \in TaskIds : FlowTaskStep(t)
    \/ \E c \in CallIds : StartCheck(c) \/ StartCreate(c)
    \/ \E c \in CallIds : StopCheck(c) \/ StopFinish(c)
    \/ EngineStep

SpecSync == SyncInit /\ [][SyncNext]_vars

\* A manager after the first period of account 1: the period has ended and the
\* stream was stopped. The manager has run since that period and still holds
\* the entry of its monitor (stale), or the process was started since. The
\* next period exists already (running: the standalone service starts the
\* stream for it) or the start attempt of the page creates it after it has
\* started the stream. The table holds a tick of the first period and, with
\* later, one that the stream of another process wrote into the new period.
EndedPeriod(p, why) ==
    [p EXCEPT !.ended = TRUE, !.status = "completed", !.reason = why]

TickRow(t, x, e) == [ts |-> t, acct |-> x, equity |-> e, balance |-> 100]

PeriodsInit ==
    /\ StreamInit /\ ProcInit /\ TickInit
    /\ DeployInit /\ DeployBudgets(0, 0) /\ ServiceInit
    /\ clock = 0 /\ flatq = FlatIdle /\ samplesLeft = MaxPeriodTicks
    /\ Budgets(MaxPeriodOps, 0, MaxPeriodAttempts, 0)
    /\ TickBudgets(MaxPeriodTicks, 0) /\ StoreFaults(0)
    /\ monTicksLeft = 0
    /\ events = <<>>
    /\ fresh = [x \in Accounts |-> "none"]
    /\ bars = [x \in Accounts |-> [m \in Minutes |-> NoBar]]
    /\ now = 1
    /\ \E running \in BOOLEAN, stale \in BOOLEAN, later \in BOOLEAN :
          /\ later => running
          /\ periods =
                <<EndedPeriod(NewPeriod(1, 1, "phase_1", 0), "profit_target_hit")>>
                \o (IF running THEN <<NewPeriod(1, 1, "funded", 1)>> ELSE <<>>)
          /\ accts = [i \in AcctIds |->
                IF i = 1
                THEN [NewAccount(1) EXCEPT
                        !.status = IF running THEN "active" ELSE "passed",
                        !.phase = IF running THEN "funded" ELSE "phase_1",
                        !.in_review = ~running, !.passed_at = TRUE]
                ELSE NewAccount(Min(i, NumAccounts))]
          /\ samples = <<TickRow(0, 1, 100)>>
                       \o (IF later THEN <<TickRow(1, 1, 110)>> ELSE <<>>)
          /\ metrics = [x \in Accounts |->
                IF x = 1 /\ stale THEN NewMetrics(0, 100, 0) ELSE NoMetrics]
          /\ cache = metrics
          /\ seen = [x \in Accounts |->
                IF x = 1 /\ stale THEN <<100>> ELSE <<>>]

PeriodsNext ==
    \/ \E c \in CallIds : InvokeStart(c, 1) \/ InvokeStop(c, 1)
    \/ \E c \in CallIds : FlowCallStep(c)
    \/ \E t \in TaskIds : FlowTaskStep(t)
    \/ AttemptStep(1)
    \/ \E t \in TaskIds, e \in TickValues : CallbackEnters(t, e)
    \/ CallbackSink(1)
    \/ CallbackMonitor(1)
    \/ CallbackAggregate(1, TRUE)
    \/ Sweep({})
    \/ Advance

SpecPeriods == PeriodsInit /\ [][PeriodsNext]_vars

\* The tick pipeline of one manager: every external id has its stream task in
\* the watchdog loop with its listener attached, and its account is in a
\* running period; no bar is stored yet.
TicksInit ==
    /\ streams = [a \in Accounts |-> [task |-> a, lid |-> a]]
    /\ tasks = [t \in TaskIds |->
                  IF t \in Accounts
                  THEN [BlankTask(t, "watchdog", FALSE) EXCEPT !.lid = t]
                  ELSE BlankTask(0, "unused", FALSE)]
    /\ lock = 0
    /\ calls = [c \in CallIds |-> IdleCall]
    /\ vendor = [l \in ListenerIds |-> IF l \in Accounts THEN "cur" ELSE "none"]
    /\ startHist = [a \in Accounts |-> [open |-> TRUE, rets |-> <<"true">>]]
    /\ ProcInit /\ TickInit /\ SideInit
    /\ Budgets(0, 0, 0, 0) /\ TickBudgets(MaxTicks, MaxTickFaults) /\ StoreFaults(0)
    /\ now = 0
    /\ events = <<>>
    /\ fresh = [x \in Accounts |-> "none"]
    /\ bars = [x \in Accounts |-> [m \in Minutes |-> NoBar]]
    /\ periods = [i \in AcctIds |->
                    NewPeriod(i, Min(i, NumAccounts), "phase_1", 0)]
    /\ accts = [i \in AcctIds |->
                  [NewAccount(Min(i, NumAccounts)) EXCEPT
                      !.status = "active", !.phase = "phase_1"]]

TicksNext ==
    \/ \E t \in TaskIds, e \in TickValues : CallbackEnters(t, e)
    \/ \E x \in Accounts : CallbackFails(x)
    \/ \E x \in Accounts : CallbackSink(x)
    \/ \E x \in Accounts : CallbackMonitor(x)
    \/ \E x \in Accounts, ok \in BOOLEAN : CallbackAggregate(x, ok)
    \/ \E failed \in SUBSET (Accounts \X Minutes) : Sweep(failed)
    \/ Advance

SpecTicks == TicksInit /\ [][TicksNext]_vars

\* The tick pipeline of external id 1 next to the engine process: the stream
\* of account 1 wrote the bar of minute 0 or not, before or after the period of
\* the account started (the stream is started before the period is created,
\* improved_account_flow.py lines 120-166); account 2 has a period and no
\* stream in this process.
EarlierBars == {NoBar, Bar(90, 90, 90, 90), Bar(110, 110, 110, 110)}

ProfitInit ==
    /\ streams = [a \in Accounts |-> IF a = 1 THEN [task |-> 1, lid |-> 1]
                                     ELSE NoEntry]
    /\ tasks = [t \in TaskIds |->
                  IF t = 1
                  THEN [BlankTask(1, "watchdog", FALSE) EXCEPT !.lid = 1]
                  ELSE BlankTask(0, "unused", FALSE)]
    /\ lock = 0
    /\ calls = [c \in CallIds |-> IdleCall]
    /\ vendor = [l \in ListenerIds |-> IF l = 1 THEN "cur" ELSE "none"]
    /\ startHist = [a \in Accounts |->
                      [open |-> TRUE, rets |-> IF a = 1 THEN <<"true">> ELSE <<>>]]
    /\ ProcInit /\ TickInit /\ SideInit
    /\ Budgets(0, 0, 0, 0) /\ TickBudgets(MaxTicks, MaxTickFaults) /\ StoreFaults(0)
    /\ events = <<>>
    /\ fresh = [x \in Accounts |-> "none"]
    /\ \E start \in 0..1, first \in EarlierBars :
          /\ now = IF first = NoBar THEN start ELSE 1
          /\ bars = [x \in Accounts |-> [m \in Minutes |->
                        IF x = 1 /\ m = 0 THEN first ELSE NoBar]]
          /\ periods = [i \in AcctIds |->
                          NewPeriod(i, Min(i, NumAccounts), "phase_1",
                                    IF i = 1 THEN start ELSE 0)]
          /\ accts = [i \in AcctIds |->
                [NewAccount(Min(i, NumAccounts)) EXCEPT
                    !.status = "active", !.phase = "phase_1",
                    !.profit = CurrentProfit(bars, periods,
                                             Min(i, NumAccounts), i)]]

ProfitNext ==
    \/ TicksNext
    \/ EngineStep

SpecProfit == ProfitInit /\ [][ProfitNext]_vars

\* One flatness check of the lifecycle manager against the sample table, the
\* sinks inserting rows and time passing meanwhile; the rest stays as it is.
FlatnessInit ==
    /\ StreamInit /\ StoreInit /\ ProcInit /\ TickInit
    /\ Budgets(0, 0, 0, 0) /\ TickBudgets(0, 0) /\ StoreFaults(0)
    /\ SampleInit
    /\ samplesLeft = MaxSamples
    /\ DeployInit /\ DeployBudgets(0, 0)
    /\ MonitorInit /\ monTicksLeft = 0
    /\ ServiceInit

FlatnessNext ==
    \/ \E x \in Accounts, q \in SampleQuotes : InsertSample(x, q)
    \/ ClockAdvance
    \/ \E x \in Accounts : FlatCheck(x)
    \/ FlatMessage

SpecFlatness == FlatnessInit /\ [][FlatnessNext]_vars

\* The deployment handler of the web process. Account 1 belongs to user 1 and
\* is either just purchased or was deployed on login 1 before and is waiting
\* for its start, in its evaluation, or failed; account 2 is just purchased,
\* by either user.
PriorStates == {"pending_setup", "pending_start", "active", "failed"}

PriorAccount(st) ==
    IF st = "pending_setup" THEN PurchasedAccount
    ELSE IF st = "pending_start" THEN NewAccount(1)
    ELSE IF st = "active"
    THEN [NewAccount(1) EXCEPT !.status = "active", !.phase = "phase_1"]
    ELSE AccountAfter([NewAccount(1) EXCEPT !.status = "active",
                                            !.phase = "phase_1"],
                      "drawdown_breach", "phase_1")

PriorPeriods(st) ==
    IF st = "active" THEN <<NewPeriod(1, 1, "phase_1", 0)>>
    ELSE IF st = "failed"
    THEN <<PeriodAfter(NewPeriod(1, 1, "phase_1", 0), "drawdown_breach", "phase_1")>>
    ELSE <<>>

DeploymentInit ==
    /\ StreamInit /\ ProcInit /\ TickInit
    /\ Budgets(0, 0, 0, 0) /\ TickBudgets(0, 0) /\ StoreFaults(0)
    /\ SampleInit /\ samplesLeft = 0
    /\ MonitorInit /\ monTicksLeft = 0
    /\ ServiceInit
    /\ \E st \in PriorStates, owner \in Users :
          /\ accts = [i \in AcctIds |-> IF i = 1 THEN PriorAccount(st)
                                        ELSE PurchasedAccount]
          /\ periods = PriorPeriods(st)
          /\ reg = [i \in AcctIds |->
                      IF i = 1
                      THEN [user |-> 1,
                            login |-> IF st = "pending_setup" THEN 0 ELSE 1]
                      ELSE [user |-> owner, login |-> 0]]
          /\ cloud = [l \in Logins |->
                        IF l = 1 /\ st # "pending_setup" THEN 1 ELSE 0]
    /\ bars = [x \in Accounts |-> [m \in Minutes |-> NoBar]]
    /\ events = <<>>
    /\ fresh = [x \in Accounts |-> "none"]
    /\ now = 0
    /\ deploys = [i \in AcctIds |-> DeployIdle]
    /\ DeployBudgets(MaxDeploys, MaxDeployFaults)

DeploymentNext == \E i \in AcctIds : DeployStep(i)

SpecDeployment == DeploymentInit /\ [][DeploymentNext]_vars

\* The equity monitor of one manager. Every external id is in its funded
\* period, which started at minute 1 after the evaluation period of minute 0
\* was passed. The monitor has no entry for an id or, initialized at the
\* stream's start, the entry of a first equity of 100; the cache has no row
\* for it or still the row the earlier period left.
MonitorValues == {95, 100, 102, 105}

EarlierRow == MetricsAfterTick(NewMetrics(0, 95, 0), 105, 0)

MonitoringInit ==
    /\ StreamInit /\ ProcInit /\ TickInit
    /\ Budgets(0, 0, 0, 0) /\ TickBudgets(0, 0) /\ StoreFaults(0)
    /\ SampleInit /\ samplesLeft = 0
    /\ DeployInit /\ DeployBudgets(0, 0)
    /\ ServiceInit
    /\ accts = [i \in AcctIds |->
                  [AccountAfter(NewAccount(Min(i, NumAccounts)),
                                "profit_target", "phase_1")
                     EXCEPT !.status = "active", !.phase = "funded"]]
    /\ periods = [k \in 1..(2 * NumAccounts) |->
                    IF k <= NumAccounts
                    THEN PeriodAfter(NewPeriod(k, k, "phase_1", 0),
                                     "profit_target", "phase_1")
                    ELSE NewPeriod(k - NumAccounts, k - NumAccounts, "funded", 1)]
    /\ bars = [x \in Accounts |-> [m \in Minutes |-> NoBar]]
    /\ events = <<>>
    /\ fresh = [x \in Accounts |-> "none"]
    /\ now = 1
    /\ metrics \in [Accounts -> {NoMetrics, NewMetrics(1, 100, 1)}]
    /\ cache \in [Accounts -> {NoMetrics, EarlierRow}]
    /\ seen = [x \in Accounts |-> <<>>]
    /\ monTicksLeft = MaxMonitorTicks

MonitoringNext ==
    \/ \E x \in Accounts, e \in MonitorValues : MonitorProcessTick(x, e)
    \/ Advance

SpecMonitoring == MonitoringInit /\ [][MonitoringNext]_vars

\* The stream supervisor under a scheduler that runs every task that can take
\* a step: a sleep ends, a vendor call returns or fails, the lock is handed on.
RetryInit ==
    /\ StreamInit /\ StoreInit /\ ProcInit /\ TickInit /\ SideInit
    /\ Budgets(MaxRetryOps, MaxFaults, 0, 0) /\ TickBudgets(0, 0) /\ StoreFaults(0)

SpecRetry ==
    /\ RetryInit /\ [][StreamNext]_vars
    /\ \A t \in TaskIds : WF_vars(TaskStep(t))

\* ------------------------------------------------------------------ claims
\* A step in which call c, a pending start, runs its check (line 508).
StartChecks(c) ==
    /\ calls[c].pc = "pending"
    /\ calls[c].op = "start"
    /\ calls'[c].pc # "pending"

\* A step in which call c, a pending stop, looks its account up (line 527).
StopChecks(c) ==
    /\ calls[c].pc = "pending"
    /\ calls[c].op = "stop"
    /\ calls'[c].pc # "pending"

\* A step in which call c, a stop that found an entry, returns to its caller.
StopReturns(c) ==
    /\ calls[c].pc = "waiting"
    /\ calls'[c].pc = "returned"

\* C1: a start for an account that has an unfinished stream task returns False,
\* creates no task and leaves the bookkeeping as it is; and the first two starts
\* of an account, with no stop requested for it, return True then False and leave
\* exactly one task.
C1_StartOnLiveIsNoOp ==
    /\ [][\A c \in CallIds :
            (StartChecks(c) /\ LiveTasksOf(calls[c].acct) # {}) =>
                /\ calls'[c].pc = "returned"
                /\ calls'[c].result = "false"
                /\ tasks' = tasks
                /\ streams' = streams]_vars
    /\ [](\A a \in Accounts :
            /\ Len(startHist[a].rets) >= 1 => startHist[a].rets[1] = "true"
            /\ Len(startHist[a].rets) >= 2 => startHist[a].rets[2] = "false"
            /\ (startHist[a].open /\ Len(startHist[a].rets) >= 1) =>
                    Cardinality(TasksOf(a)) = 1)

\* C2: at no time does an account have two unfinished stream tasks.
C2_OneLiveTaskPerAccount ==
    \A a \in Accounts : Cardinality(LiveTasksOf(a)) <= 1

\* C3: a stop for an account without bookkeeping entry returns False, raises
\* nothing and changes neither the bookkeeping nor any task.
C3_StopUnknownIsNoOp ==
    [][\A c \in CallIds :
        (StopChecks(c) /\ ~InStreams(calls[c].acct)) =>
            /\ calls'[c].pc = "returned"
            /\ calls'[c].result = "false"
            /\ streams' = streams
            /\ tasks' = tasks
            /\ vendor' = vendor]_vars

\* C3 witness: a stop returned False for an account that had been started and
\* stopped before, while the other account's task is running.
C3_Witness ==
    \E c \in CallIds : \E a \in Accounts :
        /\ calls[c].pc = "returned"
        /\ calls[c].op = "stop"
        /\ calls[c].result = "false"
        /\ \E t \in TasksOf(calls[c].acct) : TaskDone(t)
        /\ a # calls[c].acct
        /\ LiveTasksOf(a) # {}

\* C4: a stop that found an entry returns True, with the task it waited for
\* finished, that task's listener detached and the account's entry removed,
\* whatever the task was doing when the stop was requested.
C4_StopHonoured ==
    [][\A c \in CallIds :
        StopReturns(c) =>
            /\ calls'[c].result = "true"
            /\ tasks'[calls[c].task].pc = "done"
            /\ tasks'[calls[c].task].lid = NoListener
            /\ streams'[calls[c].acct] = NoEntry]_vars

\* C5: in every reachable state each external account id has at most one
\* trading_periods row with end_time NULL and status 'active'.
C5_OneOpenPeriodPerExternalId ==
    \A x \in Accounts : Cardinality(OpenPeriods(periods, x)) <= 1

\* The bars of a snapshot row r that count for its period, its baseline, and
\* whether some bar reaches the target or the drawdown limit.
RowBars(r) == {m \in Minutes : m >= r.start /\ bars[r.ext][m] # NoBar}
RowBaseline(r) ==
    bars[r.ext][CHOOSE m \in RowBars(r) : \A k \in RowBars(r) : m <= k].open
RowHasBaseline(r) == RowBars(r) # {} /\ RowBaseline(r) > 0
TargetReached(r) ==
    /\ RowHasBaseline(r)
    /\ \E m \in RowBars(r) :
          (bars[r.ext][m].high - RowBaseline(r)) * 100
              >= PlanProfitTargetPct * RowBaseline(r)
LimitReached(r) ==
    /\ RowHasBaseline(r)
    /\ \E m \in RowBars(r) :
          (RowBaseline(r) - bars[r.ext][m].low) * 100
              >= PlanMaxDrawdownPct * RowBaseline(r)

\* A step in which the engine checks a row of its snapshot, and that row.
EngineChecks == engine.pc = "loop" /\ engine'.rows # engine.rows
CheckedRow == CHOOSE r \in engine.rows : r \notin engine'.rows

\* C6: check_account returns 'profit_target' iff some bar since the period
\* start has a high at or above baseline * (1 + profit_target_pct), whatever the
\* latest close; otherwise 'drawdown_breach' iff some bar has a low at or below
\* baseline * (1 - max_drawdown_pct); otherwise it returns no decision.
C6_DecisionFromExtrema ==
    [][EngineChecks =>
        LET r == CheckedRow IN
        /\ engine'.decision = "profit_target" <=> TargetReached(r)
        /\ engine'.decision = "drawdown_breach" <=>
              (~TargetReached(r) /\ LimitReached(r))
        /\ engine'.decision = "none" <=>
              (~TargetReached(r) /\ ~LimitReached(r))]_vars

\* The engine has decided 'profit_target' for a row whose spike is in the first
\* bar while the latest bar, high and close, is back below the target.
C6_Witness ==
    /\ engine.decision = "profit_target"
    /\ engine.pc = "upd_account"
    /\ LET r == engine.row
           last == CHOOSE m \in RowBars(r) : \A k \in RowBars(r) : m >= k
       IN /\ Cardinality(RowBars(r)) = 2
          /\ bars[r.ext][last].high < RowBaseline(r)
          /\ bars[r.ext][last].close < RowBaseline(r)

InHandler == engine.pc \in {"upd_account", "upd_period", "stop_stream", "log_event"}

\* C7: a row whose period high has reached the target and whose period low has
\* reached the drawdown limit is decided 'profit_target', and the handler that
\* then runs does not write status 'failed', does not disable the account,
\* does not close the period as failed and logs no 'evaluation_failed'.
C7_TargetBeforeDrawdown ==
    [][/\ (EngineChecks /\ TargetReached(CheckedRow) /\ LimitReached(CheckedRow))
            => engine'.decision = "profit_target" /\ engine'.pc = "upd_account"
       /\ (InHandler /\ engine.decision = "profit_target"
              /\ TargetReached(engine.row) /\ LimitReached(engine.row)
              /\ engine' # engine)
            => LET a == engine.row.acct
                   p == engine.row.period
               IN /\ accts'[a].status = "failed" => accts[a].status = "failed"
                  /\ accts'[a].enabled = accts[a].enabled
                  /\ accts'[a].closed_at = accts[a].closed_at
                  /\ periods'[p].status = "failed" => periods[p].status = "failed"
                  /\ events' # events =>
                        events'[Len(events')].type # "evaluation_failed"]_vars

\* The target handler has finished for a row with both thresholds reached.
C7_Witness ==
    /\ engine.pc = "loop"
    /\ engine.decision = "profit_target"
    /\ TargetReached(engine.row) /\ LimitReached(engine.row)
    /\ accts[engine.row.acct].status \in {"passed", "awaiting_withdrawal"}
    /\ periods[engine.row.period].ended
    /\ Len(events) = 1

\* C8: the target handler leaves, for a phase_1 period, the account 'passed',
\* in review, with passed_at, and the period closed as 'profit_target_hit' /
\* 'completed'; for a funded period the account 'awaiting_withdrawal' and the
\* period closed as 'profit_cap_hit'; when its stop_stream call has returned no
\* stream task of the external id is running; it logs exactly one event.
C8_TargetTransition ==
    [][(InHandler /\ engine.decision = "profit_target" /\ engine' # engine) =>
        LET a == engine.row.acct
            p == engine.row.period
        IN /\ engine.pc = "upd_account" =>
                IF engine.row.ptype = "phase_1"
                THEN /\ accts'[a].status = "passed"
                     /\ accts'[a].in_review
                     /\ accts'[a].passed_at
                ELSE accts'[a].status = "awaiting_withdrawal"
           /\ engine.pc = "upd_period" =>
                /\ periods'[p].ended
                /\ periods'[p].status = "completed"
                /\ periods'[p].reason = IF engine.row.ptype = "phase_1"
                                        THEN "profit_target_hit"
                                        ELSE "profit_cap_hit"
           /\ engine.pc = "stop_stream" => LiveTasksOf(engine.row.ext) = {}
           /\ engine.pc = "log_event" => Len(events') = Len(events) + 1
           /\ engine.pc # "log_event" => events' = events]_vars

\* C9: the drawdown handler leaves the account 'failed', disabled, with
\* closed_at, and the period closed as 'drawdown_breach' / 'failed'; when its
\* stop_stream call has returned no stream task of the external id is running;
\* it logs exactly one event; and an account that is failed and disabled is in
\* no later snapshot, stays failed and gets no further event.
C9_DrawdownTransition ==
    [][/\ (InHandler /\ engine.decision = "drawdown_breach" /\ engine' # engine) =>
            LET a == engine.row.acct
                p == engine.row.period
            IN /\ engine.pc = "upd_account" =>
                    /\ accts'[a].status = "failed"
                    /\ ~accts'[a].enabled
                    /\ accts'[a].closed_at
               /\ engine.pc = "upd_period" =>
                    /\ periods'[p].ended
                    /\ periods'[p].status = "failed"
                    /\ periods'[p].reason = "drawdown_breach"
               /\ engine.pc = "stop_stream" => LiveTasksOf(engine.row.ext) = {}
               /\ engine.pc = "log_event" => Len(events') = Len(events) + 1
               /\ engine.pc # "log_event" => events' = events
       /\ (engine.pc = "idle" /\ engine'.pc = "loop") =>
            \A r \in engine'.rows : accts[r.acct].status # "failed"]_vars

\* C10: a check that finds no baseline bar, no bars, or high and low inside the
\* thresholds changes no account, no period, no event and no stream, and the
\* engine goes on to the next row; so it does at every repetition.
C10_NoDecisionNoEffect ==
    [][(EngineChecks /\ ~TargetReached(CheckedRow) /\ ~LimitReached(CheckedRow)) =>
          /\ engine'.pc = "loop"
          /\ engine'.decision = "none"
          /\ accts' = accts
          /\ periods' = periods
          /\ events' = events
          /\ streams' = streams
          /\ tasks' = tasks
          /\ calls' = calls]_vars

\* The engine has checked, without decision, a row whose period has a bar
\* inside the thresholds while the stream task of its external id runs.
C10_Witness ==
    /\ engine.pc \in {"loop", "idle"}
    /\ engine.decision = "none"
    /\ engine.row # NoRow
    /\ RowHasBaseline(engine.row)
    /\ LiveTasksOf(engine.row.ext) # {}
    /\ accts[engine.row.acct].status = "active"
    /\ events = <<>>

\* C11: in one cycle of the engine, an error raised for one account is caught
\* at that account: the check of a row removes that row alone from the rows the
\* cycle still has to visit, a row whose check raised leaves the loop running
\* and the store as it was, every other row gets the decision of its bars and,
\* if decided, its handler, and the cycle ends only when no row is left.
C11_ErrorCaughtAtAccount ==
    [][/\ EngineChecks =>
            \E r \in engine.rows :
               /\ engine'.rows = engine.rows \ {r}
               /\ engine'.row = r
               /\ CheckRaises(r) =>
                     /\ engine'.pc = "loop"
                     /\ engine'.errors = engine.errors \cup {r.acct}
                     /\ UNCHANGED storeVars
               /\ ~CheckRaises(r) =>
                     /\ engine'.decision = CheckAccount(bars, r.ext, r.start)
                     /\ engine'.errors = engine.errors
                     /\ engine'.pc = IF engine'.decision = "none" THEN "loop"
                                     ELSE "upd_account"
       /\ engine.pc \notin {"idle", "loop"} =>
            /\ engine'.rows = engine.rows
            /\ engine'.pc # "idle"
       /\ (engine.pc = "loop" /\ engine'.pc = "idle") => engine.rows = {}
      ]_vars

\* An account is being transitioned in a cycle that has logged the error of
\* another account.
C11_Witness ==
    /\ engine.pc = "log_event"
    /\ engine.errors # {}
    /\ engine.row.acct \notin engine.errors
    /\ accts[engine.row.acct].status # "active"
    /\ periods[engine.row.period].ended

RECURSIVE SeqMax(_)
SeqMax(q) == IF Len(q) = 1 THEN q[1] ELSE Max(q[1], SeqMax(Tail(q)))

RECURSIVE SeqMin(_)
SeqMin(q) == IF Len(q) = 1 THEN q[1] ELSE Min(q[1], SeqMin(Tail(q)))

\* The bar of a window that took the ticks q, in this order.
WindowBar(q) == Bar(q[1], SeqMax(q), SeqMin(q), q[Len(q)])

\* C12: once no bucket is left in memory, the stored bar of every minute that
\* took ticks has the first tick of the window as open, the largest as high,
\* the smallest as low and the last as close.
C12_StoredBarIsWindowOHLC ==
    \A x \in Accounts, m \in Minutes :
        (/\ fed[x][m] # <<>>
         /\ \A y \in Accounts, k \in Minutes : buckets[y][k] = NoBar)
        => bars[x][m] = WindowBar(fed[x][m])

\* The bar a step hands to _persist_bar for the key (x, m): the bucket a sweep
\* finds, or the bucket process_tick has just put its late tick into.
FlushedBar(x, m) ==
    IF cb[x].pc = "agg" /\ cb'[x].pc = "idle" /\ cb[x].ts = m
    THEN TickInto(buckets[x][m], cb[x].equity)
    ELSE buckets[x][m]

\* C13: a key has one stored bar, which no flush removes; over the flushes of
\* the key the stored high never decreases, the stored low never increases and
\* the stored open never changes; a write of a bucket stores a bar that writing
\* the same bucket again would leave as it is.
C13_FlushIsWideningUpsert ==
    [][\A x \in Accounts, m \in Minutes :
          /\ bars[x][m] # NoBar =>
                /\ bars'[x][m] # NoBar
                /\ bars'[x][m].open = bars[x][m].open
                /\ bars'[x][m].high >= bars[x][m].high
                /\ bars'[x][m].low <= bars[x][m].low
          /\ stored'[x][m] # stored[x][m] =>
                /\ bars'[x][m] # NoBar
                /\ bars'[x][m].close = FlushedBar(x, m).close
                /\ UpsertBar(bars'[x][m], FlushedBar(x, m)) = bars'[x][m]
      ]_vars

\* The bar of a key has been written twice, the second time from a bucket with
\* another open and a higher high than the stored bar had.
C13_Witness ==
    \E x \in Accounts, m \in Minutes :
        /\ stored[x][m] >= 2
        /\ Len(fed[x][m]) >= 2
        /\ bars[x][m].open = fed[x][m][1]
        /\ bars[x][m].open # fed[x][m][Len(fed[x][m])]
        /\ bars[x][m].high > bars[x][m].open

\* The callback of external id x returns in this step.
CallbackReturns(x) == cb[x].pc # "idle" /\ cb'[x].pc = "idle"

\* C14: when the callback of a tick has returned, the tick has been handed to
\* the tick sink, the equity monitor and the aggregator.
C14_TickReachesAllConsumers ==
    \A x \in Accounts :
        (cb[x].pc = "idle" /\ cb[x].outcome # "none")
        => cb[x].handed = {"sink", "monitor", "agg"}

\* C15: a failure of a consumer does not leave the callback: every callback
\* ends by returning, after a caught failure too, and its end leaves the stream
\* task, the manager's map and the registration at the vendor as they were.
C15_ConsumerFailureIsContained ==
    [][\A x \in Accounts :
          CallbackReturns(x) =>
             /\ cb'[x].outcome \in {"returned", "caught"}
             /\ cb'[x].outcome = "caught" => cb'[x].caught = cb[x].caught + 1
             /\ UNCHANGED <<tasks, streams, vendor>>
      ]_vars

\* After a failure the listener has logged, a later tick of the same account
\* has gone through all three consumers while its task is still running.
C15_Witness ==
    \E x \in Accounts :
        /\ cb[x].caught >= 1
        /\ cb[x].pc = "idle"
        /\ cb[x].outcome = "returned"
        /\ cb[x].handed = {"sink", "monitor", "agg"}
        /\ fresh[x] = TickKind(cb[x].equity)
        /\ \E t \in TaskIds : tasks[t].acct = x /\ tasks[t].pc = "watchdog"

\* C16: a task that has met three failures in a row sends its next attach
\* request only after it has recreated the connection object, and sends it with
\* the failure counter at 0 and the backoff at its initial value. No tick
\* arrives in this specification, so the failures of a task follow one another
\* with no sign of health in between.
C16_ResetAfterThreeFailures ==
    [][\A t \in TaskIds :
          (tasks[t].pc # "attaching" /\ tasks'[t].pc = "attaching") =>
             /\ tasks[t].fails < MaxFailuresBeforeSdkReset
             /\ tasks[t].pc = "sdk_pause" =>
                   /\ tasks'[t].cf = 0
                   /\ tasks'[t].backoff = BackoffInitial
      ]_vars

\* C17: a registration at the vendor is made by a stream task, and a task that
\* ends leaves none of its registrations behind: once every task has ended, no
\* listener is registered at the vendor, on the current connection object or on
\* a discarded one.
C17_NoRegistrationOutlivesTasks ==
    (\A t \in TaskIds : ~TaskLive(t)) => \A l \in ListenerIds : vendor[l] = "none"

\* The open periods of internal account i in the table ps.
OpenPeriodsOf(ps, i) ==
    {p \in DOMAIN ps : ps[p].acct = i /\ ps[p].status = "active" /\ ~ps[p].ended}

\* The start attempt of account i returns in this step.
AttemptReturns(i) == attempts[i].pc # "idle" /\ attempts'[i].pc = "idle"

\* C18: a start attempt goes on to create the period only on a fresh flat
\* sample, and when it returns success it returns the id of a period that is
\* the one open period of the account and has the requested type, the account
\* is 'active' in the matching phase, and the stream task the attempt started
\* is still running.
C18_SuccessMeansStarted ==
    [][\A i \in AcctIds :
          /\ (attempts[i].pc = "flat_check" /\ attempts'[i].pc = "create")
                => fresh[accts[i].ext] = "flat"
          /\ (AttemptReturns(i) /\ attempts'[i].result = "success") =>
                /\ attempts'[i].period \in DOMAIN periods'
                /\ OpenPeriodsOf(periods', i) = {attempts'[i].period}
                /\ periods'[attempts'[i].period].ptype = attempts[i].ptype
                /\ accts'[i].status = "active"
                /\ accts'[i].phase = attempts[i].ptype
                /\ TaskLive(attempts[i].task)
                /\ ~tasks[attempts[i].task].stop
      ]_vars

\* C19: a start attempt that gives up (no fresh tick after the polls, or not
\* flat) neither creates a period nor changes its account, and when it returns
\* it returns failure and the stream task it started has ended.
C19_GiveUpStopsAndKeepsState ==
    [][\A i \in AcctIds :
          attempts[i].pc \in {"give_up", "stopping"} =>
             /\ attempts'[i].pc \in {"give_up", "stopping", "idle"}
             /\ accts'[i] = accts[i]
             /\ OpenPeriodsOf(periods', i) = OpenPeriodsOf(periods, i)
             /\ AttemptReturns(i) =>
                   /\ attempts'[i].result = "failed"
                   /\ ~TaskLive(attempts[i].task)
      ]_vars

\* C20: a start attempt whose start_stream finds the stream of the external id
\* running goes on to poll for a fresh tick.
C20_RunningStreamIsNoOp ==
    [][\A i \in AcctIds :
          (/\ attempts[i].pc = "starting"
           /\ attempts'[i].pc # "starting"
           /\ calls[attempts[i].call].result = "false")
          => attempts'[i].pc = "polling"
      ]_vars

\* The rows of an external id that are less than 60 s old, and the latest.
SamplesInWindow(x) ==
    {k \in DOMAIN samples : samples[k].acct = x /\ clock - samples[k].ts < FreshWindow}

LatestInWindow(x) ==
    samples[CHOOSE k \in SamplesInWindow(x) : \A j \in SamplesInWindow(x) : j <= k]

\* C21: the flatness check reports flat iff the most recent sample of the
\* last 60 s has |equity - balance| < 0.01, and not flat when there is no such
\* sample; the failure message of a check that found a not flat sample
\* carries the equity and the balance of that sample.
C21_FlatnessOfNewestSample ==
    [][/\ (flatq.pc = "idle" /\ flatq'.pc # "idle") =>
            LET x == flatq'.acct
            IN /\ SamplesInWindow(x) = {} => ~flatq'.is_flat
               /\ SamplesInWindow(x) # {} =>
                    /\ flatq'.judged = LatestInWindow(x)
                    /\ flatq'.is_flat =
                         (Abs(LatestInWindow(x).equity - LatestInWindow(x).balance)
                            < FlatTolerance)
       /\ (flatq.pc = "not_flat" /\ flatq'.pc = "refused"
             /\ flatq.judged # NoSample) =>
            flatq'.message = <<flatq.judged.equity, flatq.judged.balance>>]_vars

\* The part of C21 about the check itself.
C21_CheckAlone ==
    [][(flatq.pc = "idle" /\ flatq'.pc # "idle") =>
            LET x == flatq'.acct
            IN /\ SamplesInWindow(x) = {} => ~flatq'.is_flat
               /\ SamplesInWindow(x) # {} =>
                    /\ flatq'.judged = LatestInWindow(x)
                    /\ flatq'.is_flat =
                         (Abs(LatestInWindow(x).equity - LatestInWindow(x).balance)
                            < FlatTolerance)]_vars

StatusNode(row) ==
    IF row.status = "active" THEN <<"active", row.phase>> ELSE <<row.status, "none">>

\* The edges of the status graph; 'failed' has no outgoing edge.
StatusEdges ==
    {<<<<"pending_setup", "none">>, <<"pending_start", "none">>>>,
     <<<<"pending_start", "none">>, <<"active", "phase_1">>>>,
     <<<<"active", "phase_1">>, <<"passed", "none">>>>,
     <<<<"active", "phase_1">>, <<"failed", "none">>>>,
     <<<<"passed", "none">>, <<"active", "funded">>>>,
     <<<<"passed", "none">>, <<"failed", "none">>>>,
     <<<<"active", "funded">>, <<"awaiting_withdrawal", "none">>>>,
     <<<<"active", "funded">>, <<"failed", "none">>>>,
     <<<<"awaiting_withdrawal", "none">>, <<"active", "funded">>>>,
     <<<<"awaiting_withdrawal", "none">>, <<"failed", "none">>>>}

\* C23: every change of an account's status follows an edge of the status
\* graph; no step moves an account out of 'failed', and none sets
\* 'pending_start' or 'active' from a status without such an edge.
C23_StatusFollowsGraph ==
    [][\A i \in AcctIds :
          StatusNode(accts'[i]) # StatusNode(accts[i]) =>
             <<StatusNode(accts[i]), StatusNode(accts'[i])>> \in StatusEdges]_vars

\* C24: no two accounts of different users carry the same MT login with an
\* external account id set.
C24_LoginOwnedByOneUser ==
    \A i, j \in AcctIds :
       (/\ reg[i].login # 0
        /\ reg[i].login = reg[j].login
        /\ accts[i].ext # 0
        /\ accts[j].ext # 0) => reg[i].user = reg[j].user

\* The last, the highest and the lowest equity the monitor of x has seen, its
\* first equity included.
LastSeen(x) == seen[x][Len(seen[x])]
HighestSeen(x) == Max(metrics[x].first_equity, SeqMax(seen[x]))
LowestSeen(x) == Min(metrics[x].first_equity, SeqMin(seen[x]))

\* C25: after initialization with a first equity f > 0 the current gain is
\* (last equity - f) / f, the peak and trough gains are the gains at the
\* highest and the lowest equity seen and change only on a strict new high or
\* low, and the drawdown is |gain| for a negative gain and 0 otherwise; the
\* ticks 100, 105, 95, 102 with f = 100 give 0.05, -0.05 and 0.
C25_MetricsFollowTicks ==
    /\ [](\A x \in Accounts :
            (metrics[x].init /\ metrics[x].first_equity > 0 /\ seen[x] # <<>>) =>
               LET m == metrics[x]
                   f == m.first_equity
               IN /\ m.current_equity = LastSeen(x)
                  /\ m.current_gain_pct = Ratio(LastSeen(x) - f, f)
                  /\ m.peak_equity = HighestSeen(x)
                  /\ m.peak_gain_pct = Ratio(HighestSeen(x) - f, f)
                  /\ m.trough_equity = LowestSeen(x)
                  /\ m.trough_gain_pct = Ratio(LowestSeen(x) - f, f)
                  /\ m.current_drawdown_pct =
                        IF LastSeen(x) < f THEN Ratio(f - LastSeen(x), f)
                        ELSE Ratio(0, 1)
                  /\ (f = 100 /\ seen[x] = <<100, 105, 95, 102>>) =>
                        /\ m.peak_gain_pct = Ratio(5, 100)
                        /\ m.trough_gain_pct = Ratio(0 - 5, 100)
                        /\ m.current_drawdown_pct = Ratio(0, 1))
    /\ [][\A x \in Accounts :
            metrics[x].init =>
               /\ metrics'[x].peak_gain_pct # metrics[x].peak_gain_pct =>
                     metrics'[x].current_equity > metrics[x].peak_equity
               /\ metrics'[x].trough_gain_pct # metrics[x].trough_gain_pct =>
                     metrics'[x].current_equity < metrics[x].trough_equity]_vars

\* The monitor has worked the ticks 100, 105, 95, 102 into metrics whose first
\* equity is 100.
C25_Witness ==
    \E x \in Accounts :
       /\ metrics[x].init
       /\ metrics[x].first_equity = 100
       /\ seen[x] = <<100, 105, 95, 102>>
       /\ metrics[x].peak_gain_pct = Ratio(5, 100)
       /\ metrics[x].trough_gain_pct = Ratio(0 - 5, 100)
       /\ metrics[x].current_drawdown_pct = Ratio(0, 1)

RECURSIVE Pow2(_)
Pow2(n) == IF n = 0 THEN 1 ELSE 2 * Pow2(n - 1)

\* C26: after every failure of a stream task (attach timeout or exception,
\* connection not acknowledged, watchdog trip) the task sleeps a backoff delay
\* before it attaches again; the base delay is 2 s after the first failure,
\* doubles with every further consecutive failure and is at most 60 s.
C26_FailureBacksOff ==
    [][\A t \in TaskIds :
          tasks'[t].fails > tasks[t].fails =>
             /\ tasks'[t].pc = "backoff"
             /\ tasks'[t].backoff =
                   Min(BackoffInitial * Pow2(tasks'[t].fails - 1), BackoffMax)
             /\ tasks'[t].backoff <= BackoffMax]_vars

\* The task has met a failure and is pausing or back at the head of its loop.
AfterFailure(t) ==
    /\ tasks[t].fails > 0
    /\ tasks[t].pc \in {"backoff", "conn_pause", "loop", "sdk_pause"}

\* C27: a stream task ends only after a stop was requested, and from every
\* failure (attach timeout or exception, connection not acknowledged,
\* disconnect, staleness) it gets to its next attach request unless a stop is
\* requested first.
C27_TaskRetriesUntilStopped ==
    /\ [][\A t \in TaskIds :
            (tasks[t].pc # "done" /\ tasks'[t].pc = "done") => tasks[t].stop]_vars
    /\ \A t \in TaskIds :
          (AfterFailure(t) /\ ~tasks[t].stop)
             ~> (tasks[t].pc = "attaching" \/ tasks[t].stop)

\* A task that has tripped its watchdog is attaching again, no stop requested.
C27_Witness ==
    \E t \in TaskIds :
       /\ tasks[t].pc = "attaching"
       /\ tasks[t].fails > 0
       /\ ~tasks[t].stop

\* A sweep runs in this step; the aggregator's process_tick returns in it
\* without having raised.
SweepRuns == cb' = cb /\ (stored' # stored \/ buckets' # buckets)
AggregatorReturns(x) ==
    cb[x].pc = "agg" /\ cb'[x].pc = "idle" /\ cb'[x].outcome = "returned"

\* C28: a bucket leaves the memory only with its bar written to storage and
\* only once its minute started 60 s or more ago; a sweep leaves no bucket
\* behind whose minute is that old, and a tick for such a minute is flushed
\* and evicted within its process_tick call.
C28_BucketsFlushedWhenComplete ==
    [][/\ \A x \in Accounts, m \in Minutes :
            /\ (buckets[x][m] # NoBar /\ buckets'[x][m] = NoBar) =>
                  (BarComplete(m, now) /\ stored'[x][m] = stored[x][m] + 1)
            /\ bars'[x][m] # bars[x][m] => BarComplete(m, now)
       /\ SweepRuns =>
            \A x \in Accounts, m \in Minutes :
               BarComplete(m, now) => buckets'[x][m] = NoBar
       /\ \A x \in Accounts :
            (AggregatorReturns(x) /\ BarComplete(cb[x].ts, now)) =>
               /\ buckets'[x][cb[x].ts] = NoBar
               /\ stored'[x][cb[x].ts] = stored[x][cb[x].ts] + 1]_vars

\* A bar of external id x is flushed in this step: by a sweep, by the
\* aggregator's process_tick, or by a write of _persist_bar.
BarFlushed(x) ==
    \/ \E m \in Minutes : buckets[x][m] # NoBar /\ buckets'[x][m] = NoBar
    \/ AggregatorReturns(x) /\ BarComplete(cb[x].ts, now)
    \/ barsLeft' # barsLeft /\ bars'[x] # bars[x]

\* close of the latest stored bar of x minus open of the first stored bar at
\* or after s, in the table b.
ProfitSince(b, x, s) ==
    b[x][LastOf(BarsSince(b, x, 0))].close - b[x][FirstOf(BarsSince(b, x, s))].open

C30_CacheRowIsSnapshot ==
    [][\A x \in Accounts :
          seen'[x] # seen[x] => (cache'[x].init /\ cache'[x] = metrics'[x])]_vars

\* C33: every unfinished stream task is the task of its account's entry in
\* _streams, and the pop that ends a stop call removes the entry of the task
\* that call waited for, never the entry a later start has stored.
C33_LiveTasksAreRecorded ==
    /\ [](\A t \in TaskIds : TaskLive(t) => streams[tasks[t].acct].task = t)
    /\ [][\A c \in CallIds :
            StopReturns(c) => streams[calls[c].acct].task = calls[c].task]_vars

\* C34: whatever task had the connection object recreated, every registration
\* alive at the vendor is the one an unfinished task holds as its listener_id:
\* no registration made on a discarded connection object stays alive once its
\* task has detached, next to the registration the task makes afterwards.
C34_RegistrationsAreHeld ==
    \A l \in ListenerIds :
        vendor[l] # "none" => \E t \in TaskIds : TaskLive(t) /\ tasks[t].lid = l

\* C35: a bucket leaves the memory only in a step in which its bar reaches
\* the store; after a write that failed the bucket is still in memory, also
\* the bucket process_tick has made for a late tick.
C35_BucketKeptUntilWritten ==
    [][\A x \in Accounts, m \in Minutes :
          /\ (buckets[x][m] # NoBar /\ buckets'[x][m] = NoBar)
                => stored'[x][m] = stored[x][m] + 1
          /\ (AggregatorReturns(x) /\ cb[x].ts = m /\ BarComplete(m, now))
                => \/ stored'[x][m] = stored[x][m] + 1
                   \/ buckets'[x][m] # NoBar]_vars

\* C37: the step in which the deployment of account i runs
\* handle_initial_deployment changes the status of no other account, and an
\* account the rule engine selected before the step is selected after it.
C37_DeploymentTouchesOneAccount ==
    [][\A i \in AcctIds :
          (deploys[i].pc = "initial" /\ deploys'[i].pc # "initial") =>
             /\ \A j \in AcctIds \ {i} : accts'[j].status = accts[j].status
             /\ \A r \in ActiveRows : r.acct # i => r \in ActiveRows']_vars

\* C39: a flush of a bar of an external id that has no open period leaves
\* current_profit of its accounts as it was.
C39_FlushAfterCloseKeepsProfit ==
    [][\A i \in AcctIds :
          (BarFlushed(accts[i].ext) /\ OpenPeriods(periods, accts[i].ext) = {})
             => accts'[i].profit = accts[i].profit]_vars

\* C36: in every state the entry of an account in the monitor is ordered: the
\* trough is at most the first equity and the current equity, both are at most
\* the peak, the trough gain is at most zero, the peak gain at least zero and
\* the drawdown at least zero; and a tick that process_tick takes for an
\* account with an entry leaves the entry's first equity and period start.
MetricsOrdered(m) ==
    /\ m.trough_equity <= m.first_equity
    /\ m.first_equity <= m.peak_equity
    /\ m.trough_equity <= m.current_equity
    /\ m.current_equity <= m.peak_equity
    /\ m.trough_gain_pct[1] <= 0
    /\ m.peak_gain_pct[1] >= 0
    /\ m.current_drawdown_pct[1] >= 0

C36_MetricsStayOrdered ==
    /\ [](\A x \in Accounts : metrics[x].init => MetricsOrdered(metrics[x]))
    /\ [][\A x \in Accounts :
            (metrics[x].init /\ seen'[x] # seen[x]) =>
               /\ metrics'[x].first_equity = metrics[x].first_equity
               /\ metrics'[x].period_start = metrics[x].period_start]_vars

\* An entry that has seen the equity below and above its first value and is now
\* strictly between its trough and its peak.
C36_Witness ==
    \E x \in Accounts :
        /\ metrics[x].init
        /\ metrics[x].trough_equity < metrics[x].first_equity
        /\ metrics[x].first_equity < metrics[x].peak_equity
        /\ metrics[x].trough_equity < metrics[x].current_equity
        /\ metrics[x].current_equity < metrics[x].peak_equity
        /\ metrics[x].trough_gain_pct[1] < 0
        /\ metrics[x].peak_gain_pct[1] > 0
        /\ Len(seen[x]) >= 3

\* C38: an account that the engine has moved to passed, awaiting_withdrawal or
\* failed gets its trading period closed in the same cycle or a later one, also
\* when one UPDATE of the transition fails in the store: from every state where
\* such an account has a period with status active and no end_time, a state is
\* reached where it has none.
MovedOut(i) == accts[i].status \in {"passed", "awaiting_withdrawal", "failed"}

RunningPeriods(i) ==
    {p \in DOMAIN periods :
        periods[p].acct = i /\ periods[p].status = "active" /\ ~periods[p].ended}

C38_PeriodClosedAfterTransition ==
    \A i \in AcctIds :
        (MovedOut(i) /\ RunningPeriods(i) # {}) ~> (RunningPeriods(i) = {})

\* C40: every caller of get_service() in a process gets the same single
\* EquityStreamService, also when the first calls run concurrently: at most
\* one service is ever constructed, two threads never hold different ones, and
\* no external id has a stream task in two managers.
C40_OneServicePerProcess ==
    /\ built <= 1
    /\ \A a, b \in ThreadIds :
          (callers[a].pc = "has" /\ callers[b].pc = "has")
             => callers[a].got = callers[b].got
    /\ \A x \in Accounts : Cardinality({v \in ServiceIds : x \in mgrs[v]}) <= 1

\* C32: when a pass of sync_streams ends over a store that is as the pass
\* found it, every start and stop call having succeeded, the tracked ids are
\* the ids that an enabled account with status active and a running period
\* has; the pass has stopped no id that an account needed at that moment, a
\* shared id included; and no id ever has two live stream tasks.
SyncReturns == sync.pc = "orphans" /\ sync'.pc = "idle"

StoreAsFound == accts = sync.accts0 /\ periods = sync.periods0

C32_SyncFollowsStore ==
    /\ [][(SyncReturns /\ StoreAsFound) =>
            /\ tracked = NeedingStreams(accts, periods)
            /\ \A q \in sync.stopped : ~q[2]]_vars
    /\ [](\A x \in Accounts : Cardinality(LiveTasksOf(x)) <= 1)

\* C31: whenever process_tick works a tick into the metrics of an account that
\* has a running period, the entry's period_start is the start of that period,
\* its first_equity is the equity of the first tick stored at or after that
\* start, and its peak and trough enclose it; also when the monitor held an
\* entry from an earlier period or the stream was started before the period
\* was created.
FirstTicks(tbl, x, s) ==
    {k \in TicksSince(tbl, x, s) :
        \A j \in TicksSince(tbl, x, s) : tbl[k].ts <= tbl[j].ts}

C31_FirstEquityOfPeriod ==
    [][\A x \in Accounts :
          (seen'[x] # seen[x] /\ UnendedPeriods(periods, x) # {}) =>
             LET s == LatestStart(periods, x) IN
             /\ metrics'[x].period_start = s
             /\ \E k \in FirstTicks(samples, x, s) :
                    metrics'[x].first_equity = samples[k].equity
             /\ metrics'[x].trough_equity <= metrics'[x].first_equity
             /\ metrics'[x].first_equity <= metrics'[x].peak_equity]_vars


====
